---- MODULE Spec2Model ----
(***************************************************************************)
(* The Fusion+ cross-chain escrow contract                                 *)
(* (src/contracts/fusion_polkadot_escrow/lib.rs) as a state machine: one   *)
(* action per ink! message, applied atomically.  For every message there   *)
(* is an operator <message>_result giving what the message returns in the  *)
(* current state for given inputs ("Ok" or the Error variant), computed in *)
(* the order of the code's early returns.  A message that returns Err      *)
(* reverts: ink! sets the REVERT flag for a Result::Err return, so storage *)
(* writes, outgoing transfers and the transferred value are all rolled     *)
(* back; such a call leaves every variable unchanged (a stuttering step),  *)
(* so an action is enabled exactly for the inputs its message accepts.     *)
(*                                                                         *)
(* Fields of FusionOrder that no message reads (src_token, dst_token,      *)
(* dst_amount) are left out of the order record; the unused parameters     *)
(* (_signature, _amount, _args, _immutables) are left out of the messages. *)
(***************************************************************************)
EXTENDS Integers, Sequences, FiniteSets, TLC

VARIABLES
    orders,             \* Mapping order_hash -> FusionOrder
    active_hash_locks,  \* Mapping hash_lock -> order_hash
    escrow_addresses,   \* Mapping order_hash -> escrow address
    owner,
    paused,
    protocol_fee_bps,
    order_nonce,
    total_volume,
    total_escrows_created,
    approved_resolvers, \* the accounts mapped to true
    trusted_relayers,   \* the accounts mapped to true
    balance,            \* native balance held by the contract
    wallet,             \* native balance of every account
    intent_escrow,      \* storage and native balance of the IntentEscrow contract
    escrow_resolver,    \* the PolkadotResolver of src/polkadot_contracts
    job_resolver,       \* the PolkadotResolver of src/contracts (resolver jobs)
    relayer_coordinator, \* the RelayerCoordinator contract
    now,                \* block_timestamp (ms)
    last                \* the message processed by the latest step and its outcome

vars == <<orders, active_hash_locks, escrow_addresses, owner, paused,
          protocol_fee_bps, order_nonce, total_volume, total_escrows_created,
          approved_resolvers, trusted_relayers,
          balance, wallet, intent_escrow, escrow_resolver, job_resolver,
          relayer_coordinator, now, last>>

\* the contracts beside the two escrows
Periphery == <<escrow_resolver, job_resolver, relayer_coordinator>>

(***************************************************************************)
(* Bounds of the model.                                                    *)
(***************************************************************************)
MaxOrders == 2
MaxTicks == 4
MaxAmount == 2
MaxSecret == 1

(***************************************************************************)
(* Program constants and input domains.                                    *)
(***************************************************************************)
Accounts == {"alice", "bob", "carol"}
Deployer == "carol"
\* the accounts that publish orders, and those that lock them
Makers == {"alice"}
Resolvers == {"bob"}
InitFunds == MaxAmount + 1
None == "none"
\* Option<T> of a numeric T: the empty tuple, or a one-element tuple
NoValue == <<>>
Some(x) == <<x>>

\* 30u64.saturating_mul(60).saturating_mul(1000)
GracePeriod == 30 * 60 * 1000
TickStep == GracePeriod \div 2
BpsDenominator == 10000
min_safety_deposit == 1
BpsChoices == {5000}

Directions == {"EthereumToPolkadot", "PolkadotToEthereum"}
Terminal == {"Executed", "Cancelled", "Refunded"}
Active == {"Locked", "PartialFill"}

\* secret 0 is the preimage of no hash_lock a resolver uses
Secrets == 0 .. MaxSecret
\* [0u8; 32], the hash_lock of an order that was never locked
ZeroHash == 0
\* Blake2x256 of a 32-byte secret: injective, and never the all-zero digest
Hash(s) == s + 1000
HashLocks == {ZeroHash} \cup {Hash(s) : s \in 1 .. MaxSecret}

\* Blake2x256 of the SCALE encoding of the order data: injective on the tuple
OrderHash(caller, src_amount, fill_deadline, nonce, current_time) ==
    <<"order", caller, src_amount, fill_deadline, nonce, current_time>>
UnknownHash == <<"order", None>>
OrderHashes == DOMAIN orders \cup {UnknownHash}

\* Blake2x256 of (order_hash, hash_lock, maker, taker, amount, deployed_at)
compute_escrow_address(im) ==
    <<"escrow", im.order_hash, im.hash_lock, im.maker, im.taker, im.amount,
      IF im.deployed_at = NoValue THEN 0 ELSE im.deployed_at[1]>>

Min(a, b) == IF a <= b THEN a ELSE b

(***************************************************************************)
(* Mapping helpers.                                                        *)
(***************************************************************************)
Insert(m, k, v) == [x \in DOMAIN m \cup {k} |-> IF x = k THEN v ELSE m[x]]
\* A faulty variant: the entry stays.
Remove_kept(m, k) == m

Remove(m, k) == [x \in DOMAIN m \ {k} |-> m[x]]
EmptyMap == [x \in {} |-> None]

(***************************************************************************)
(* Ledger: env().transfer.  A list of transfers <<to, amount>> goes        *)
(* through when the ledger accepts it and the contract holds the funds.    *)
(***************************************************************************)
RECURSIVE SumAll(_)
SumAll(ts) == IF ts = <<>> THEN 0 ELSE Head(ts)[2] + SumAll(Tail(ts))

RECURSIVE SumTo(_, _)
SumTo(ts, a) ==
    IF ts = <<>> THEN 0
    ELSE (IF Head(ts)[1] = a THEN Head(ts)[2] ELSE 0) + SumTo(Tail(ts), a)

\* A faulty variant: a refused transfer goes unnoticed.
TransfersOk_always(ts, held, ledger_ok) == TRUE

TransfersOk(ts, held, ledger_ok) == ts = <<>> \/ (ledger_ok /\ SumAll(ts) <= held)

(***************************************************************************)
(* The record of the latest step: the message that succeeded, or a tick.   *)
(***************************************************************************)
\* The events a successful message emits, in the order of its emit_event calls.
Events(op) ==
    CASE op = "create_order" -> <<"OrderCreated">>
      [] op = "deploy_src" -> <<"SrcEscrowDeployed">>
      [] op = "deploy_dst" -> <<"DstEscrowDeployed">>
      [] op = "deploy_escrow" -> <<"EscrowDeployed">>
      [] op = "execute_swap" -> <<"SwapExecuted">>
      [] op = "withdraw" -> <<"SwapExecuted", "EscrowWithdrawal">>
      [] op = "execute_partial_fill" -> <<"PartialFillExecuted">>
      [] op = "cancel" -> <<"EscrowCancellation">>
      [] op = "cancel_order" -> <<"OrderCancelled">>
      [] op = "submit_fusion_intent" -> <<"FusionOrderCreated">>
      [] op = "assign_resolver" -> <<"ResolverAssigned">>
      [] op = "intent_execute_swap" -> <<"CrossChainSwapCompleted">>
      [] op = "refund_order" -> <<"OrderRefunded">>
      [] op = "resolver_deploy_src" -> <<"SrcEscrowDeployed">>
      [] op = "resolver_deploy_dst" -> <<"DstEscrowDeployed">>
      [] op = "resolver_withdraw" -> <<"EscrowWithdrawal">>
      [] op = "resolver_cancel" -> <<"EscrowCancellation">>
      [] op = "create_job" -> <<"JobCreated">>
      [] op = "deactivate_relayer" -> <<"RelayerDeactivated">>
      [] op = "submit_ethereum_proof" -> <<"EthereumEscrowVerified">>
      [] op = "job_execute_swap" -> <<"SwapExecuted">>
      [] op = "complete_job" -> <<"JobCompleted">>
      [] OTHER -> <<>>

Outcome(op, caller, oh, reason) ==
    [op |-> op, caller |-> caller, order_hash |-> oh, reason |-> reason,
     amount |-> 0, account |-> None, input |-> None, events |-> Events(op)]

\* The caller's transferred value enters the contract, then `ts` is paid out.
Settle(caller, value, ts) ==
    /\ balance' = balance + value - SumAll(ts)
    /\ wallet' = [a \in Accounts |->
                    wallet[a] - (IF a = caller THEN value ELSE 0) + SumTo(ts, a)]

(***************************************************************************)
(* The IntentEscrow contract (src/contracts/intent_escrow/lib.rs) after    *)
(* its constructor.  Its storage and its native balance are the fields of  *)
(* one record; the fields no message reads (relayer_coordinator,           *)
(* protocol_fee_bps) are left out.                                         *)
(***************************************************************************)
min_resolver_stake == 1
ONE_DAY_MS == 24 * 60 * 60 * 1000

IntentEscrow_new ==
    [orders |-> EmptyMap,
     order_nonce |-> 0,
     owner |-> Deployer,
     paused |-> FALSE,
     active_htlcs |-> EmptyMap,
     balance |-> 0]

(***************************************************************************)
(* The PolkadotResolver of src/polkadot_contracts/polkadot_resolver/lib.rs *)
(* after its constructor: the escrows it deployed, by order_hash, and the  *)
(* native funds it sent to each escrow address.                            *)
(***************************************************************************)
EscrowResolver_new ==
    [owner |-> Deployer,
     escrows |-> EmptyMap,
     escrow_addresses |-> EmptyMap,
     trusted_relayers |-> {},
     total_escrows_created |-> 0,
     funds |-> EmptyMap]

(***************************************************************************)
(* The PolkadotResolver of src/contracts/polkadot_resolver/lib.rs after    *)
(* its constructor, with its native balance.                               *)
(***************************************************************************)
JobResolver_new ==
    [jobs |-> EmptyMap,
     active_resolvers |-> {},
     trusted_relayers |-> {},
     owner |-> Deployer,
     job_nonce |-> 0,
     total_jobs_completed |-> 0,
     balance |-> 0]

(***************************************************************************)
(* The RelayerCoordinator of src/contracts/relayer_coordinator/lib.rs      *)
(* after its constructor, with its native balance.                         *)
(***************************************************************************)
RelayerCoordinator_new ==
    [relayers |-> EmptyMap,
     owner |-> Deployer,
     intent_escrow |-> None,
     active_relayer_count |-> 0,
     total_stakes |-> 0,
     paused |-> FALSE,
     order_assignments |-> EmptyMap,
     penalty_threshold |-> 3,
     relayer_penalties |-> EmptyMap,
     balance |-> 0]

Init ==
    /\ orders = EmptyMap
    /\ active_hash_locks = EmptyMap
    /\ escrow_addresses = EmptyMap
    /\ owner = Deployer
    /\ paused = FALSE
    /\ protocol_fee_bps \in BpsChoices
    /\ order_nonce = 0
    /\ total_volume = 0
    /\ total_escrows_created = 0
    /\ approved_resolvers = {}
    /\ trusted_relayers = {}
    /\ balance = 0
    /\ wallet = [a \in Accounts |-> InitFunds]
    /\ intent_escrow = IntentEscrow_new
    /\ escrow_resolver = EscrowResolver_new
    /\ job_resolver = JobResolver_new
    /\ relayer_coordinator = RelayerCoordinator_new
    /\ now = 0
    /\ last = Outcome("new", Deployer, UnknownHash, None)

(***************************************************************************)
(* Admin messages.                                                         *)
(***************************************************************************)
\* A faulty variant: every caller passes.
ensure_owner_anyone(caller) == "Ok"

ensure_owner(caller) == IF caller # owner THEN "OnlyOwner" ELSE "Ok"

set_paused ==
    \E caller \in Accounts, p \in BOOLEAN :
        /\ ensure_owner(caller) = "Ok"
        /\ paused' = p
        /\ last' = Outcome("set_paused", caller, UnknownHash, None)
        /\ UNCHANGED <<Periphery, intent_escrow, approved_resolvers, trusted_relayers, orders, active_hash_locks, escrow_addresses, owner,
                       protocol_fee_bps, order_nonce, total_volume,
                       total_escrows_created, balance, wallet, now>>

transfer_ownership ==
    \E caller \in Accounts, new_owner \in Accounts :
        /\ ensure_owner(caller) = "Ok"
        /\ owner' = new_owner
        /\ last' = [Outcome("transfer_ownership", caller, UnknownHash, None)
                        EXCEPT !.account = new_owner]
        /\ UNCHANGED <<Periphery, intent_escrow, approved_resolvers, trusted_relayers, orders, active_hash_locks, escrow_addresses, paused,
                       protocol_fee_bps, order_nonce, total_volume,
                       total_escrows_created, balance, wallet, now>>

approve_resolver ==
    \E caller \in Accounts, resolver \in Resolvers :
        /\ ensure_owner(caller) = "Ok"
        /\ approved_resolvers' = approved_resolvers \cup {resolver}
        /\ last' = [Outcome("approve_resolver", caller, UnknownHash, None)
                        EXCEPT !.account = resolver]
        /\ UNCHANGED <<Periphery, intent_escrow, orders, active_hash_locks, escrow_addresses,
                       owner, paused, protocol_fee_bps, order_nonce, total_volume,
                       total_escrows_created, trusted_relayers, balance, wallet, now>>

add_trusted_relayer ==
    \E caller \in Accounts, relayer \in Accounts :
        /\ ensure_owner(caller) = "Ok"
        /\ trusted_relayers' = trusted_relayers \cup {relayer}
        /\ last' = [Outcome("add_trusted_relayer", caller, UnknownHash, None)
                        EXCEPT !.account = relayer]
        /\ UNCHANGED <<Periphery, intent_escrow, orders, active_hash_locks, escrow_addresses,
                       owner, paused, protocol_fee_bps, order_nonce, total_volume,
                       total_escrows_created, approved_resolvers, balance, wallet,
                       now>>

(***************************************************************************)
(* create_order                                                            *)
(***************************************************************************)
create_order_result(caller, src_amount, fill_deadline, value) ==
    IF paused THEN "ContractPaused"
    ELSE IF fill_deadline <= now THEN "DeadlineExpired"
    ELSE IF value < src_amount THEN "InsufficientFunds"
    ELSE IF OrderHash(caller, src_amount, fill_deadline, order_nonce, now)
                \in DOMAIN orders THEN "OrderAlreadyExists"
    ELSE "Ok"

\* A faulty variant: a new order counts one unit as filled.
NewOrder_prefilled(caller, direction, src_amount, fill_deadline, max_resolver_fee) ==
    [maker |-> caller,
     taker |-> None,
     src_amount |-> src_amount,
     direction |-> direction,
     ethereum_escrow |-> None,
     hash_lock |-> ZeroHash,
     secret |-> NoValue,
     fill_deadline |-> fill_deadline,
     private_cancellation |-> now + GracePeriod,
     status |-> "Pending",
     filled_amount |-> 1,
     safety_deposit |-> 0,
     resolver |-> None,
     resolver_fee |-> max_resolver_fee,
     created_at |-> now,
     paid_out |-> 0]

NewOrder(caller, direction, src_amount, fill_deadline, max_resolver_fee) ==
    [maker |-> caller,
     taker |-> None,
     src_amount |-> src_amount,
     direction |-> direction,
     ethereum_escrow |-> None,
     hash_lock |-> ZeroHash,
     secret |-> NoValue,
     fill_deadline |-> fill_deadline,
     private_cancellation |-> now + GracePeriod,
     status |-> "Pending",
     filled_amount |-> 0,
     safety_deposit |-> 0,
     resolver |-> None,
     resolver_fee |-> max_resolver_fee,
     created_at |-> now,
     paid_out |-> 0]

\* The inputs of a specification: the parameters makers choose from, the
\* callers of the messages that do not depend on their caller, and the steps
\* of the clock.  Deadlines are offsets from now, in ticks: one that is not
\* in the future, one inside the private cancellation period and one after it.
FullInputs ==
    [max_orders |-> MaxOrders - 1,
     directions |-> Directions,
     amounts |-> 1 .. MaxAmount,
     deadlines |-> {0, 1, 3},
     fees |-> 0 .. 1,
     surplus |-> 0 .. 1,
     callers |-> Accounts,
     ticks |-> {1},
     horizon |-> MaxTicks]

\* The parameters of the orders of the two-order specification.
PairInputs ==
    [max_orders |-> MaxOrders,
     directions |-> {"EthereumToPolkadot"},
     amounts |-> {1},
     deadlines |-> {0, 3},
     fees |-> {0},
     surplus |-> {0},
     callers |-> {"carol"},
     ticks |-> {MaxTicks},
     horizon |-> MaxTicks]

\* The parameters of the order of the specification with the owner's messages.
AdminInputs == [FullInputs EXCEPT !.callers = {"carol"}, !.surplus = {0}, !.fees = {0}]

\* the values a maker sends with an order: too little, exact, and a surplus
ValueInputs(d, caller, src_amount) ==
    {v \in 0 .. wallet[caller] :
        v = src_amount - 1 \/ v - src_amount \in d.surplus}

create_order(d) ==
    /\ order_nonce < d.max_orders
    /\ \E caller \in Makers, direction \in d.directions,
          src_amount \in d.amounts,
          fill_deadline \in {now + k * TickStep : k \in d.deadlines},
          max_resolver_fee \in d.fees :
       \E value \in ValueInputs(d, caller, src_amount) :
        LET r == create_order_result(caller, src_amount, fill_deadline, value)
            oh == OrderHash(caller, src_amount, fill_deadline, order_nonce, now)
        IN  /\ r = "Ok"
            /\ orders' = Insert(orders, oh,
                   NewOrder(caller, direction, src_amount, fill_deadline,
                            max_resolver_fee))
            /\ order_nonce' = order_nonce + 1
            /\ Settle(caller, value, <<>>)
            /\ last' = Outcome("create_order", caller, oh, None)
            /\ UNCHANGED <<Periphery, intent_escrow, approved_resolvers, trusted_relayers, active_hash_locks, escrow_addresses, owner, paused,
                           protocol_fee_bps, total_volume,
                           total_escrows_created, now>>

(***************************************************************************)
(* Locking: deploy_src, deploy_dst, deploy_escrow                          *)
(***************************************************************************)
\* The immutables a resolver passes for an order: the order's own data with
\* the hash_lock and taker of its choice.
Immutables(oh, hash_lock, taker, deployed_at) ==
    [order_hash |-> oh,
     hash_lock |-> hash_lock,
     maker |-> IF oh \in DOMAIN orders THEN orders[oh].maker ELSE None,
     taker |-> taker,
     amount |-> IF oh \in DOMAIN orders THEN orders[oh].src_amount ELSE 0,
     deployed_at |-> deployed_at]

get_escrow_immutables(oh) ==
    Immutables(oh, orders[oh].hash_lock,
               IF orders[oh].taker = None THEN orders[oh].maker ELSE orders[oh].taker,
               Some(orders[oh].created_at))

\* the deposits a resolver sends: below the minimum, and the minimum
DepositInputs(caller) == 0 .. Min(min_safety_deposit, wallet[caller])

\* A faulty variant: an order of any status can be locked again.
deploy_src_result_any_status(immutables, oh, value) ==
    IF paused THEN "ContractPaused"
    ELSE IF value < min_safety_deposit THEN "InsufficientDeposit"
    ELSE IF oh \notin DOMAIN orders THEN "OrderNotFound"
    ELSE "Ok"

deploy_src_result(immutables, oh, value) ==
    IF paused THEN "ContractPaused"
    ELSE IF value < min_safety_deposit THEN "InsufficientDeposit"
    ELSE IF oh \notin DOMAIN orders THEN "OrderNotFound"
    ELSE IF orders[oh].status # "Pending" THEN "InvalidOrderStatus"
    ELSE "Ok"

deploy_src ==
    \E caller \in Resolvers, oh \in OrderHashes, hash_lock \in HashLocks,
       taker \in Resolvers :
    \E value \in DepositInputs(caller) :
        LET immutables == Immutables(oh, hash_lock, taker, NoValue)
            r == deploy_src_result(immutables, oh, value)
        IN  /\ r = "Ok"
            /\ orders' = [orders EXCEPT
                   ![oh].status = "Locked",
                   ![oh].safety_deposit = value,
                   ![oh].hash_lock = immutables.hash_lock,
                   ![oh].resolver = immutables.taker]
            /\ escrow_addresses' = Insert(escrow_addresses, oh,
                   compute_escrow_address(
                       [immutables EXCEPT !.deployed_at = Some(now)]))
            /\ active_hash_locks' =
                   Insert(active_hash_locks, immutables.hash_lock, oh)
            /\ total_escrows_created' = total_escrows_created + 1
            /\ Settle(caller, value, <<>>)
            /\ last' = Outcome("deploy_src", caller, oh, None)
            /\ UNCHANGED <<Periphery, intent_escrow, approved_resolvers, trusted_relayers, owner, paused, protocol_fee_bps, order_nonce,
                           total_volume, now>>

deploy_dst_result(dst_immutables) ==
    IF paused THEN "ContractPaused"
    ELSE IF dst_immutables.order_hash \notin DOMAIN orders THEN "OrderNotFound"
    ELSE "Ok"

deploy_dst ==
    \E caller \in Resolvers, oh \in OrderHashes :
    \E value \in {0} :
        LET dst_immutables == IF oh \in DOMAIN orders
                              THEN get_escrow_immutables(oh)
                              ELSE Immutables(oh, ZeroHash, caller, NoValue)
            r == deploy_dst_result(dst_immutables)
        IN  /\ r = "Ok"
            /\ orders' = [orders EXCEPT ![oh].ethereum_escrow = "zero"]
            /\ escrow_addresses' = Insert(escrow_addresses, oh,
                   compute_escrow_address(dst_immutables))
            /\ Settle(caller, value, <<>>)
            /\ last' = Outcome("deploy_dst", caller, oh, None)
            /\ UNCHANGED <<Periphery, intent_escrow, approved_resolvers, trusted_relayers, active_hash_locks, owner, paused, protocol_fee_bps,
                           order_nonce, total_volume, total_escrows_created, now>>

\* A faulty variant: any deposit will do.
deploy_escrow_result_any_deposit(oh, hash_lock, value) ==
    IF paused THEN "ContractPaused"
    ELSE IF oh \notin DOMAIN orders THEN "OrderNotFound"
    ELSE IF orders[oh].status # "Pending" THEN "InvalidOrderStatus"
    ELSE IF hash_lock \in DOMAIN active_hash_locks THEN "HashLockAlreadyUsed"
    ELSE "Ok"

deploy_escrow_result(oh, hash_lock, value) ==
    IF paused THEN "ContractPaused"
    ELSE IF value < min_safety_deposit THEN "InsufficientDeposit"
    ELSE IF oh \notin DOMAIN orders THEN "OrderNotFound"
    ELSE IF orders[oh].status # "Pending" THEN "InvalidOrderStatus"
    ELSE IF hash_lock \in DOMAIN active_hash_locks THEN "HashLockAlreadyUsed"
    ELSE "Ok"

deploy_escrow(d) ==
    \E caller \in Resolvers, oh \in OrderHashes, resolver \in Resolvers,
       hash_lock \in HashLocks, resolver_fee \in d.fees :
    \E value \in DepositInputs(caller) :
        LET r == deploy_escrow_result(oh, hash_lock, value)
        IN  /\ r = "Ok"
            /\ orders' = [orders EXCEPT
                   ![oh].resolver = resolver,
                   ![oh].hash_lock = hash_lock,
                   ![oh].safety_deposit = value,
                   ![oh].resolver_fee = resolver_fee,
                   ![oh].status = "Locked",
                   ![oh].taker = caller,
                   ![oh].ethereum_escrow = "addr"]
            /\ escrow_addresses' = Insert(escrow_addresses, oh,
                   compute_escrow_address(
                       Immutables(oh, hash_lock, resolver, Some(now))))
            /\ active_hash_locks' = Insert(active_hash_locks, hash_lock, oh)
            /\ Settle(caller, value, <<>>)
            /\ last' = Outcome("deploy_escrow", caller, oh, None)
            /\ UNCHANGED <<Periphery, intent_escrow, approved_resolvers, trusted_relayers, owner, paused, protocol_fee_bps, order_nonce,
                           total_volume, total_escrows_created, now>>

(***************************************************************************)
(* Execution: execute_swap, withdraw (both through execute_swap_internal)  *)
(***************************************************************************)
\* A faulty variant: the fee is rounded up.
calculate_protocol_fee_ceil(amount) ==
    (amount * protocol_fee_bps + BpsDenominator - 1) \div BpsDenominator

calculate_protocol_fee(amount) == (amount * protocol_fee_bps) \div BpsDenominator

\* A faulty variant: the two directions pay each other's recipients.
SwapTransfers_swapped(o) ==
    LET total_amount == o.src_amount
        protocol_fee == calculate_protocol_fee(total_amount)
        remaining_after_protocol == total_amount - protocol_fee
        resolver_fee == Min(o.resolver_fee, remaining_after_protocol)
        net_amount == remaining_after_protocol - resolver_fee
        to_owner == IF protocol_fee > 0 THEN <<(<<owner, protocol_fee>>)>> ELSE <<>>
    IN  IF o.direction = "EthereumToPolkadot"
        THEN <<(<<o.resolver, net_amount + resolver_fee>>)>> \o to_owner
        ELSE <<(<<o.maker, net_amount>>)>>
             \o (IF resolver_fee > 0 THEN <<(<<o.resolver, resolver_fee>>)>> ELSE <<>>)
             \o to_owner

\* The payouts of execute_swap_internal for order o, in the order the code
\* makes them.
SwapTransfers(o) ==
    LET total_amount == o.src_amount
        protocol_fee == calculate_protocol_fee(total_amount)
        remaining_after_protocol == total_amount - protocol_fee
        resolver_fee == Min(o.resolver_fee, remaining_after_protocol)
        net_amount == remaining_after_protocol - resolver_fee
        to_owner == IF protocol_fee > 0 THEN <<(<<owner, protocol_fee>>)>> ELSE <<>>
    IN  IF o.direction = "PolkadotToEthereum"
        THEN <<(<<o.resolver, net_amount + resolver_fee>>)>> \o to_owner
        ELSE <<(<<o.maker, net_amount>>)>>
             \o (IF resolver_fee > 0 THEN <<(<<o.resolver, resolver_fee>>)>> ELSE <<>>)
             \o to_owner

\* A faulty variant: the deadline itself is already too late.
execute_swap_internal_result_early(oh, secret, ledger_ok) ==
    IF paused THEN "ContractPaused"
    ELSE IF oh \notin DOMAIN orders THEN "OrderNotFound"
    ELSE LET o == orders[oh] IN
    IF o.status # "Locked" THEN "InvalidOrderStatus"
    ELSE IF now >= o.fill_deadline THEN "DeadlineExpired"
    ELSE IF Hash(secret) # o.hash_lock THEN "InvalidSecret"
    ELSE IF o.direction = "PolkadotToEthereum" /\ o.ethereum_escrow = None
        THEN "EthereumEscrowNotSet"
    ELSE IF ~TransfersOk(SwapTransfers(o), balance, ledger_ok) THEN "TransferFailed"
    ELSE "Ok"

execute_swap_internal_result(oh, secret, ledger_ok) ==
    IF paused THEN "ContractPaused"
    ELSE IF oh \notin DOMAIN orders THEN "OrderNotFound"
    ELSE LET o == orders[oh] IN
    IF o.status # "Locked" THEN "InvalidOrderStatus"
    ELSE IF now > o.fill_deadline THEN "DeadlineExpired"
    ELSE IF Hash(secret) # o.hash_lock THEN "InvalidSecret"
    ELSE IF o.direction = "PolkadotToEthereum" /\ o.ethereum_escrow = None
        THEN "EthereumEscrowNotSet"
    ELSE IF calculate_protocol_fee(o.src_amount) > o.src_amount THEN "ArithmeticOverflow"
    ELSE IF o.resolver = None
            /\ (o.direction = "PolkadotToEthereum" \/ o.resolver_fee > 0)
        THEN "OnlyResolver"
    ELSE IF ~TransfersOk(SwapTransfers(o), balance, ledger_ok) THEN "TransferFailed"
    ELSE "Ok"

\* The state change of a successful execute_swap_internal.
ApplyExecution(caller, oh, secret) ==
    /\ orders' = [orders EXCEPT
            ![oh].status = "Executed",
            ![oh].filled_amount = orders[oh].src_amount,
            ![oh].secret = Some(secret),
            ![oh].paid_out = @ + SumAll(SwapTransfers(orders[oh]))]
    /\ active_hash_locks' = Remove(active_hash_locks, orders[oh].hash_lock)
    /\ total_volume' = total_volume + orders[oh].src_amount
    /\ Settle(caller, 0, SwapTransfers(orders[oh]))
    /\ UNCHANGED <<Periphery, intent_escrow, approved_resolvers, trusted_relayers, escrow_addresses, owner, paused, protocol_fee_bps, order_nonce,
                   total_escrows_created, now>>

execute_swap(d) ==
    \E caller \in d.callers, oh \in OrderHashes, secret \in Secrets,
       ledger_ok \in BOOLEAN :
        /\ execute_swap_internal_result(oh, secret, ledger_ok) = "Ok"
        /\ ApplyExecution(caller, oh, secret)
        /\ last' = Outcome("execute_swap", caller, oh, None)

check_withdrawal_timelock(o, current_time) ==
    IF current_time <= o.fill_deadline THEN "Ok" ELSE "DeadlineExpired"

withdraw_result(oh, secret, ledger_ok) ==
    IF oh \notin DOMAIN escrow_addresses THEN "EscrowNotFound"
    ELSE IF oh \notin DOMAIN orders THEN "OrderNotFound"
    ELSE IF Hash(secret) # orders[oh].hash_lock THEN "InvalidSecret"
    ELSE IF check_withdrawal_timelock(orders[oh], now) # "Ok"
        THEN check_withdrawal_timelock(orders[oh], now)
    ELSE execute_swap_internal_result(oh, secret, ledger_ok)

withdraw(d) ==
    \E caller \in d.callers, oh \in OrderHashes, secret \in Secrets,
       ledger_ok \in BOOLEAN :
        /\ withdraw_result(oh, secret, ledger_ok) = "Ok"
        /\ ApplyExecution(caller, oh, secret)
        /\ last' = Outcome("withdraw", caller, oh, None)

(***************************************************************************)
(* execute_partial_fill                                                    *)
(***************************************************************************)
\* A faulty variant: the secret is not verified.
execute_partial_fill_result_any_secret(oh, fill_amount, secret) ==
    IF paused THEN "ContractPaused"
    ELSE IF oh \notin DOMAIN orders THEN "OrderNotFound"
    ELSE LET o == orders[oh] IN
    IF o.status # "Locked" /\ o.status # "PartialFill" THEN "InvalidOrderStatus"
    ELSE IF fill_amount > o.src_amount - o.filled_amount THEN "InvalidAmount"
    ELSE "Ok"

execute_partial_fill_result(oh, fill_amount, secret) ==
    IF paused THEN "ContractPaused"
    ELSE IF oh \notin DOMAIN orders THEN "OrderNotFound"
    ELSE LET o == orders[oh] IN
    IF o.status # "Locked" /\ o.status # "PartialFill" THEN "InvalidOrderStatus"
    ELSE IF Hash(secret) # o.hash_lock THEN "InvalidSecret"
    ELSE IF fill_amount > o.src_amount - o.filled_amount THEN "InvalidAmount"
    ELSE "Ok"

execute_partial_fill(d) ==
    \E caller \in d.callers, oh \in OrderHashes, fill_amount \in 0 .. MaxAmount,
       secret \in Secrets :
        /\ execute_partial_fill_result(oh, fill_amount, secret) = "Ok"
        /\ LET filled == orders[oh].filled_amount + fill_amount
               done == filled >= orders[oh].src_amount
           IN  /\ orders' = [orders EXCEPT
                      ![oh].filled_amount = filled,
                      ![oh].status = IF done THEN "Executed" ELSE "PartialFill"]
               /\ active_hash_locks' =
                      IF done
                      THEN Remove(active_hash_locks, orders[oh].hash_lock)
                      ELSE active_hash_locks
               /\ last' = [Outcome("execute_partial_fill", caller, oh, None)
                               EXCEPT !.amount = fill_amount]
               /\ UNCHANGED <<Periphery, intent_escrow, approved_resolvers, trusted_relayers, escrow_addresses, owner, paused, protocol_fee_bps,
                              order_nonce, total_volume, total_escrows_created,
                              balance, wallet, now>>

(***************************************************************************)
(* Cancellation: cancel (resolver interface), cancel_order (primary)       *)
(***************************************************************************)
\* A faulty variant: the whole src_amount is refunded, filled or not.
RefundTransfers_unfilled(o) ==
    (IF o.src_amount > 0 THEN <<(<<o.maker, o.src_amount>>)>> ELSE <<>>)
    \o (IF o.safety_deposit > 0 /\ o.resolver # None
        THEN <<(<<o.resolver, o.safety_deposit>>)>> ELSE <<>>)

\* The refund of the unfilled amount to the maker, then the resolver's stake.
RefundTransfers(o) ==
    LET refund_amount == o.src_amount - o.filled_amount
    IN  (IF refund_amount > 0 THEN <<(<<o.maker, refund_amount>>)>> ELSE <<>>)
        \o (IF o.safety_deposit > 0 /\ o.resolver # None
            THEN <<(<<o.resolver, o.safety_deposit>>)>> ELSE <<>>)

\* The state change both cancellation messages make.  hash_lock is a
\* [u8; 32], so hash_lock.is_empty() is false and the index entry under the
\* order's hash_lock is always removed.
ApplyCancellation(caller, oh) ==
    /\ orders' = [orders EXCEPT
            ![oh].status = "Cancelled",
            ![oh].paid_out = @ + SumAll(RefundTransfers(orders[oh]))]
    /\ active_hash_locks' = Remove(active_hash_locks, orders[oh].hash_lock)
    /\ Settle(caller, 0, RefundTransfers(orders[oh]))
    /\ UNCHANGED <<Periphery, intent_escrow, approved_resolvers, trusted_relayers, escrow_addresses, owner, paused, protocol_fee_bps, order_nonce,
                   total_volume, total_escrows_created, now>>

check_cancellation_timelock(o, current_time) ==
    IF current_time > o.private_cancellation \/ current_time > o.fill_deadline
    THEN "Ok" ELSE "TimelockNotExpired"

cancel_result(oh, ledger_ok) ==
    IF oh \notin DOMAIN escrow_addresses THEN "EscrowNotFound"
    ELSE IF oh \notin DOMAIN orders THEN "OrderNotFound"
    ELSE LET o == orders[oh] IN
    IF check_cancellation_timelock(o, now) # "Ok"
        THEN check_cancellation_timelock(o, now)
    ELSE IF o.filled_amount > o.src_amount THEN "ArithmeticOverflow"
    ELSE IF ~TransfersOk(RefundTransfers(o), balance, ledger_ok) THEN "TransferFailed"
    ELSE "Ok"

cancel(d) ==
    \E caller \in d.callers, oh \in OrderHashes, ledger_ok \in BOOLEAN :
        /\ cancel_result(oh, ledger_ok) = "Ok"
        /\ ApplyCancellation(caller, oh)
        /\ last' = Outcome("cancel", caller, oh, None)

\* A faulty variant: past the deadline only the maker may cancel.
cancel_order_decision_maker_only(o, caller, current_time) ==
    IF o.status = "Pending"
    THEN [can_cancel |-> caller = o.maker /\ current_time <= o.private_cancellation,
          reason |-> "MakerCancellation"]
    ELSE IF o.status \in {"Locked", "PartialFill"}
    THEN IF caller = o.maker
         THEN [can_cancel |-> TRUE,
               reason |-> IF current_time > o.fill_deadline
                          THEN "TimelockExpired" ELSE "MakerCancellation"]
         ELSE [can_cancel |-> FALSE, reason |-> "ResolverTimeout"]
    ELSE [can_cancel |-> FALSE, reason |-> "EmergencyStop"]

\* (can_cancel, reason) of cancel_order
cancel_order_decision(o, caller, current_time) ==
    IF o.status = "Pending"
    THEN [can_cancel |-> caller = o.maker /\ current_time <= o.private_cancellation,
          reason |-> "MakerCancellation"]
    ELSE IF o.status \in {"Locked", "PartialFill"}
    THEN IF current_time > o.fill_deadline
         THEN [can_cancel |-> TRUE, reason |-> "TimelockExpired"]
         ELSE IF caller = o.maker
         THEN [can_cancel |-> TRUE, reason |-> "MakerCancellation"]
         ELSE [can_cancel |-> FALSE, reason |-> "ResolverTimeout"]
    ELSE [can_cancel |-> FALSE, reason |-> "EmergencyStop"]

\* A faulty variant: the maker may cancel whatever the decision.
cancel_order_result_maker_always(caller, oh, ledger_ok) ==
    IF paused THEN "ContractPaused"
    ELSE IF oh \notin DOMAIN orders THEN "OrderNotFound"
    ELSE LET o == orders[oh] IN
    IF caller # o.maker /\ ~cancel_order_decision(o, caller, now).can_cancel
        THEN "Unauthorized"
    ELSE IF o.filled_amount > o.src_amount THEN "ArithmeticOverflow"
    ELSE IF ~TransfersOk(RefundTransfers(o), balance, ledger_ok) THEN "TransferFailed"
    ELSE "Ok"

cancel_order_result(caller, oh, ledger_ok) ==
    IF paused THEN "ContractPaused"
    ELSE IF oh \notin DOMAIN orders THEN "OrderNotFound"
    ELSE LET o == orders[oh] IN
    IF ~cancel_order_decision(o, caller, now).can_cancel THEN "Unauthorized"
    ELSE IF o.filled_amount > o.src_amount THEN "ArithmeticOverflow"
    ELSE IF ~TransfersOk(RefundTransfers(o), balance, ledger_ok) THEN "TransferFailed"
    ELSE "Ok"

cancel_order ==
    \E caller \in Accounts, oh \in OrderHashes, ledger_ok \in BOOLEAN :
        /\ cancel_order_result(caller, oh, ledger_ok) = "Ok"
        /\ ApplyCancellation(caller, oh)
        /\ last' = Outcome("cancel_order", caller, oh,
                           cancel_order_decision(orders[oh], caller, now).reason)

(***************************************************************************)
(* Time: the block timestamp advances between messages.                    *)
(***************************************************************************)
Tick(d) ==
    /\ \E k \in d.ticks :
          /\ now + k * TickStep <= d.horizon * TickStep
          /\ now' = now + k * TickStep
    /\ last' = Outcome("tick", None, UnknownHash, None)
    /\ UNCHANGED <<Periphery, intent_escrow, approved_resolvers, trusted_relayers, orders, active_hash_locks, escrow_addresses, owner, paused,
                   protocol_fee_bps, order_nonce, total_volume,
                   total_escrows_created, balance, wallet>>

(***************************************************************************)
(* IntentEscrow: submit_fusion_intent, assign_resolver, execute_swap,      *)
(* refund_order, set_paused.  Orders are keyed by their id, the nonce at   *)
(* submission.                                                             *)
(***************************************************************************)
FusionVars == <<orders, active_hash_locks, escrow_addresses, owner, paused,
                protocol_fee_bps, order_nonce, total_volume,
                total_escrows_created, approved_resolvers, trusted_relayers,
                balance>>

UnknownId == 0 - 1
OrderIds == DOMAIN intent_escrow.orders \cup {UnknownId}

\* The caller's transferred value enters IntentEscrow, then `ts` is paid out.
IntentSettle(ie, caller, value, ts) ==
    /\ intent_escrow' = [ie EXCEPT !.balance = @ + value - SumAll(ts)]
    /\ wallet' = [a \in Accounts |->
                    wallet[a] - (IF a = caller THEN value ELSE 0) + SumTo(ts, a)]

intent_set_paused_result(caller) ==
    IF caller # intent_escrow.owner THEN "Unauthorized" ELSE "Ok"

intent_set_paused ==
    \E caller \in Accounts, p \in BOOLEAN :
        /\ intent_set_paused_result(caller) = "Ok"
        /\ intent_escrow' = [intent_escrow EXCEPT !.paused = p]
        /\ last' = Outcome("intent_set_paused", caller, UnknownId, None)
        /\ UNCHANGED <<Periphery, FusionVars, wallet, now>>

\* A faulty variant: the transferred value is not compared with the amount.
submit_fusion_intent_result_unfunded(from_amount, deadline, value) ==
    IF intent_escrow.paused THEN "ContractPaused"
    ELSE IF deadline <= now THEN "DeadlineExpired"
    ELSE "Ok"

submit_fusion_intent_result(from_amount, deadline, value) ==
    IF intent_escrow.paused THEN "ContractPaused"
    ELSE IF deadline <= now THEN "DeadlineExpired"
    ELSE IF value < from_amount THEN "InsufficientFunds"
    ELSE "Ok"

NewIntent(caller, from_amount, max_resolver_fee) ==
    [maker |-> caller,
     from_amount |-> from_amount,
     hashlock |-> ZeroHash,
     timelock |-> now + ONE_DAY_MS,
     assigned_resolver |-> None,
     status |-> "Pending",
     created_at |-> now,
     resolver_fee |-> max_resolver_fee,
     filled_amount |-> 0]

\* A faulty variant: the nonce stays, so the next intent gets the same id.
submit_fusion_intent_same_id(d) ==
    /\ intent_escrow.order_nonce < d.max_intents
    /\ \E caller \in Makers, from_amount \in d.amounts,
          deadline \in {now + k * TickStep : k \in d.deadlines},
          max_resolver_fee \in d.fees :
       \E value \in ValueInputs(d, caller, from_amount) :
        LET order_id == intent_escrow.order_nonce
        IN  /\ submit_fusion_intent_result(from_amount, deadline, value) = "Ok"
            /\ IntentSettle(
                   [intent_escrow EXCEPT
                       !.orders = Insert(@, order_id,
                                      NewIntent(caller, from_amount, max_resolver_fee))],
                   caller, value, <<>>)
            /\ last' = Outcome("submit_fusion_intent", caller, order_id, None)
            /\ UNCHANGED <<Periphery, FusionVars, now>>

submit_fusion_intent(d) ==
    /\ intent_escrow.order_nonce < d.max_intents
    /\ \E caller \in Makers, from_amount \in d.amounts,
          deadline \in {now + k * TickStep : k \in d.deadlines},
          max_resolver_fee \in d.fees :
       \E value \in ValueInputs(d, caller, from_amount) :
        LET order_id == intent_escrow.order_nonce
        IN  /\ submit_fusion_intent_result(from_amount, deadline, value) = "Ok"
            /\ IntentSettle(
                   [intent_escrow EXCEPT
                       !.orders = Insert(@, order_id,
                                      NewIntent(caller, from_amount, max_resolver_fee)),
                       !.order_nonce = @ + 1],
                   caller, value, <<>>)
            /\ last' = Outcome("submit_fusion_intent", caller, order_id, None)
            /\ UNCHANGED <<Periphery, FusionVars, now>>

\* the stakes a resolver sends: below the minimum, and the minimum
StakeInputs(caller) == 0 .. Min(min_resolver_stake, wallet[caller])

\* A faulty variant: a hashlock in use is accepted again.
assign_resolver_result_any_hashlock(order_id, hashlock, value) ==
    IF intent_escrow.paused THEN "ContractPaused"
    ELSE IF value < min_resolver_stake THEN "InsufficientStake"
    ELSE IF order_id \notin DOMAIN intent_escrow.orders THEN "OrderNotFound"
    ELSE IF intent_escrow.orders[order_id].status # "Pending" THEN "InvalidOrderStatus"
    ELSE "Ok"

assign_resolver_result(order_id, hashlock, value) ==
    IF intent_escrow.paused THEN "ContractPaused"
    ELSE IF value < min_resolver_stake THEN "InsufficientStake"
    ELSE IF order_id \notin DOMAIN intent_escrow.orders THEN "OrderNotFound"
    ELSE IF intent_escrow.orders[order_id].status # "Pending" THEN "InvalidOrderStatus"
    ELSE IF hashlock \in DOMAIN intent_escrow.active_htlcs THEN "OrderAlreadyExists"
    ELSE "Ok"

assign_resolver(d) ==
    \E caller \in Resolvers, order_id \in OrderIds, resolver \in Resolvers,
       hashlock \in HashLocks, resolver_fee \in d.fees :
    \E value \in StakeInputs(caller) :
        /\ assign_resolver_result(order_id, hashlock, value) = "Ok"
        /\ IntentSettle(
               [intent_escrow EXCEPT
                   !.orders[order_id].assigned_resolver = resolver,
                   !.orders[order_id].hashlock = hashlock,
                   !.orders[order_id].resolver_fee = resolver_fee,
                   !.orders[order_id].status = "Locked",
                   !.active_htlcs = Insert(@, hashlock, order_id)],
               caller, value, <<>>)
        /\ last' = Outcome("assign_resolver", caller, order_id, None)
        /\ UNCHANGED <<Periphery, FusionVars, now>>

\* A faulty variant: the amount is not compared with what remains.
intent_execute_swap_result_unbounded(order_id, secret, amount) ==
    IF intent_escrow.paused THEN "ContractPaused"
    ELSE IF order_id \notin DOMAIN intent_escrow.orders THEN "OrderNotFound"
    ELSE LET order == intent_escrow.orders[order_id] IN
    IF order.status # "Locked" /\ order.status # "PartiallyFilled"
        THEN "InvalidOrderStatus"
    ELSE IF now > order.timelock THEN "DeadlineExpired"
    ELSE IF Hash(secret) # order.hashlock THEN "InvalidSecret"
    ELSE "Ok"

intent_execute_swap_result(order_id, secret, amount) ==
    IF intent_escrow.paused THEN "ContractPaused"
    ELSE IF order_id \notin DOMAIN intent_escrow.orders THEN "OrderNotFound"
    ELSE LET order == intent_escrow.orders[order_id] IN
    IF order.status # "Locked" /\ order.status # "PartiallyFilled"
        THEN "InvalidOrderStatus"
    ELSE IF now > order.timelock THEN "DeadlineExpired"
    ELSE IF Hash(secret) # order.hashlock THEN "InvalidSecret"
    ELSE IF order.filled_amount > order.from_amount THEN "ArithmeticOverflow"
    ELSE IF amount > order.from_amount - order.filled_amount THEN "InsufficientFunds"
    ELSE "Ok"

intent_execute_swap(d) ==
    \E caller \in d.callers, order_id \in OrderIds, secret \in Secrets,
       amount \in 0 .. MaxAmount :
        /\ intent_execute_swap_result(order_id, secret, amount) = "Ok"
        /\ LET order == intent_escrow.orders[order_id]
               filled == order.filled_amount + amount
               done == filled >= order.from_amount
           IN  intent_escrow' = [intent_escrow EXCEPT
                   !.orders[order_id].filled_amount = filled,
                   !.orders[order_id].status =
                       IF done THEN "Executed" ELSE "PartiallyFilled",
                   !.active_htlcs = IF done THEN Remove(@, order.hashlock) ELSE @]
        /\ LET order == intent_escrow.orders[order_id]
               was_partial == order.status = "PartiallyFilled"
               done == order.filled_amount + amount >= order.from_amount
           IN  last' = [Outcome("intent_execute_swap", caller, order_id, None)
                           EXCEPT !.amount = amount,
                                  !.events = IF ~done /\ ~was_partial
                                             THEN <<"PartialFill">> \o @ ELSE @]
        /\ UNCHANGED <<Periphery, FusionVars, wallet, now>>

\* The refund of the unfilled amount to the maker.
IntentRefundTransfers(order) ==
    LET refund_amount == order.from_amount - order.filled_amount
    IN  IF refund_amount > 0 THEN <<(<<order.maker, refund_amount>>)>> ELSE <<>>

\* A faulty variant: any caller may refund.
refund_order_result_anyone(caller, order_id, ledger_ok) ==
    IF intent_escrow.paused THEN "ContractPaused"
    ELSE IF order_id \notin DOMAIN intent_escrow.orders THEN "OrderNotFound"
    ELSE LET order == intent_escrow.orders[order_id] IN
    IF order.status # "Locked" /\ order.status # "PartiallyFilled"
        THEN "InvalidOrderStatus"
    ELSE IF now <= order.timelock THEN "TimelockNotExpired"
    ELSE IF order.filled_amount > order.from_amount THEN "ArithmeticOverflow"
    ELSE IF ~TransfersOk(IntentRefundTransfers(order), intent_escrow.balance,
                         ledger_ok)
        THEN "InsufficientFunds"
    ELSE "Ok"

refund_order_result(caller, order_id, ledger_ok) ==
    IF intent_escrow.paused THEN "ContractPaused"
    ELSE IF order_id \notin DOMAIN intent_escrow.orders THEN "OrderNotFound"
    ELSE LET order == intent_escrow.orders[order_id] IN
    IF order.status # "Locked" /\ order.status # "PartiallyFilled"
        THEN "InvalidOrderStatus"
    ELSE IF now <= order.timelock THEN "TimelockNotExpired"
    ELSE IF caller # order.maker THEN "Unauthorized"
    ELSE IF order.filled_amount > order.from_amount THEN "ArithmeticOverflow"
    ELSE IF ~TransfersOk(IntentRefundTransfers(order), intent_escrow.balance,
                         ledger_ok)
        THEN "InsufficientFunds"
    ELSE "Ok"

refund_order ==
    \E caller \in Accounts, order_id \in OrderIds, ledger_ok \in BOOLEAN :
        /\ refund_order_result(caller, order_id, ledger_ok) = "Ok"
        /\ LET order == intent_escrow.orders[order_id]
           IN  IntentSettle(
                   [intent_escrow EXCEPT
                       !.orders[order_id].status = "Refunded",
                       !.active_htlcs = Remove(@, order.hashlock)],
                   caller, 0, IntentRefundTransfers(order))
        /\ last' = Outcome("refund_order", caller, order_id, None)
        /\ UNCHANGED <<Periphery, FusionVars, now>>

IntentMessages(d) ==
    \/ intent_set_paused
    \/ submit_fusion_intent(d)
    \/ assign_resolver(d)
    \/ intent_execute_swap(d)
    \/ refund_order

Messages(d) ==
    \/ create_order(d)
    \/ deploy_src
    \/ deploy_dst
    \/ deploy_escrow(d)
    \/ execute_swap(d)
    \/ withdraw(d)
    \/ execute_partial_fill(d)
    \/ cancel(d)
    \/ cancel_order
    \/ Tick(d)

\* One order, with every choice of its parameters.
Next == Messages(FullInputs)

Spec == Init /\ [][Next]_vars

\* Two orders side by side, with the least choice of order parameters.
NextPair == Messages(PairInputs)

SpecPair == Init /\ [][NextPair]_vars

\* One order, with the owner's messages.
NextAdmin ==
    \/ set_paused
    \/ transfer_ownership
    \/ Messages(AdminInputs)

SpecAdmin == Init /\ [][NextAdmin]_vars

\* One order under every fee setting: the constructor's protocol_fee_bps from
\* no fee to the whole amount, and resolver fees below and above what is left.
FeeBpsChoices == {0, 2500, 5000, 10000}

InitFee ==
    /\ protocol_fee_bps \in FeeBpsChoices
    /\ orders = EmptyMap
    /\ active_hash_locks = EmptyMap
    /\ escrow_addresses = EmptyMap
    /\ owner = Deployer
    /\ paused = FALSE
    /\ order_nonce = 0
    /\ total_volume = 0
    /\ total_escrows_created = 0
    /\ approved_resolvers = {}
    /\ trusted_relayers = {}
    /\ balance = 0
    /\ wallet = [a \in Accounts |-> InitFunds]
    /\ intent_escrow = IntentEscrow_new
    /\ escrow_resolver = EscrowResolver_new
    /\ job_resolver = JobResolver_new
    /\ relayer_coordinator = RelayerCoordinator_new
    /\ now = 0
    /\ last = Outcome("new", Deployer, UnknownHash, None)

FeeInputs ==
    [max_orders |-> MaxOrders - 1,
     directions |-> Directions,
     amounts |-> 1 .. InitFunds,
     deadlines |-> {3},
     fees |-> 0 .. MaxAmount,
     surplus |-> {0},
     callers |-> {"carol"},
     ticks |-> {1},
     horizon |-> MaxTicks]

NextFee == Messages(FeeInputs)

SpecFee == InitFee /\ [][NextFee]_vars

\* Both escrow contracts side by side, one order each, on a clock that steps
\* by the day: a step takes a fusion order past its fill deadline and its
\* private cancellation period, a second one takes an intent past its timelock.
DayTicks == ONE_DAY_MS \div TickStep

EscrowInputs ==
    [max_orders |-> MaxOrders - 1,
     max_intents |-> MaxOrders - 1,
     directions |-> {"EthereumToPolkadot"},
     amounts |-> 1 .. MaxAmount,
     deadlines |-> {0, 1},
     fees |-> {0},
     surplus |-> {0},
     callers |-> {"carol"},
     ticks |-> {DayTicks},
     horizon |-> 2 * DayTicks]

NextEscrows ==
    \/ set_paused
    \/ Messages(EscrowInputs)
    \/ IntentMessages(EscrowInputs)

SpecEscrows == Init /\ [][NextEscrows]_vars

\* The owner's messages of both contracts.
NextOwner ==
    \/ set_paused
    \/ approve_resolver
    \/ add_trusted_relayer
    \/ transfer_ownership
    \/ intent_set_paused

SpecOwner == Init /\ [][NextOwner]_vars

\* Two orders in each contract, with the messages that create, lock and
\* release them, at one instant.  Orders of amount 0 leave the maker the funds
\* for four orders.
LockInputs ==
    [max_orders |-> MaxOrders,
     max_intents |-> MaxOrders,
     directions |-> {"EthereumToPolkadot"},
     amounts |-> 0 .. 1,
     deadlines |-> {1},
     fees |-> {0},
     surplus |-> {0},
     callers |-> {"carol"},
     ticks |-> {1},
     horizon |-> 0]

NextLocks ==
    \/ create_order(LockInputs)
    \/ deploy_src
    \/ deploy_escrow(LockInputs)
    \/ execute_swap(LockInputs)
    \/ submit_fusion_intent(LockInputs)
    \/ assign_resolver(LockInputs)
    \/ intent_execute_swap(LockInputs)

SpecLocks == Init /\ [][NextLocks]_vars

(***************************************************************************)
(* PolkadotResolver (src/polkadot_contracts/polkadot_resolver/lib.rs):     *)
(* deploy_src, deploy_dst, withdraw, cancel.  Timestamp is an unsigned     *)
(* integer of TimestampBits bits and a timelock offset one of OffsetBits   *)
(* bits, the widths of u64 and u32 scaled down; the block timestamp of     *)
(* this contract's specification is any value of that range.               *)
(***************************************************************************)
TimestampBits == 3
OffsetBits == 2
TimestampMax == 2 ^ TimestampBits - 1
OffsetMax == 2 ^ OffsetBits - 1

\* u64::saturating_add
saturating_add(a, b) == Min(a + b, TimestampMax)

\* the order the resolver's escrows belong to
ResolverOrderHash == <<"order", "resolver">>

\* The immutables a caller passes: the timelock offsets and deployed_at are
\* the caller's choice.
ResolverImmutables ==
    [order_hash : {ResolverOrderHash},
     hash_lock : {Hash(1)},
     maker : {"alice"},
     taker : {"bob"},
     amount : {1},
     safety_deposit : {0},
     timelocks : [src_withdrawal : {0, OffsetMax},
                  src_cancellation : {OffsetMax}],
     deployed_at : {NoValue} \cup {Some(t) : t \in {0, TimestampMax}}]

resolver_ensure_owner(caller) ==
    IF caller # escrow_resolver.owner THEN "OnlyOwner" ELSE "Ok"

\* Blake2x256 of (order_hash, hash_lock, maker, taker, amount, deployed_at)
resolver_compute_escrow_address(im) ==
    <<"escrow", im.order_hash, im.hash_lock, im.maker, im.taker, im.amount,
      IF im.deployed_at = NoValue THEN 0 ELSE im.deployed_at[1]>>

\* The contract stores the escrow and forwards the caller's value to the
\* escrow address; deploy_src counts the escrow (a u64, saturating).
ResolverStore(caller, im, value, counted) ==
    LET escrow_address == resolver_compute_escrow_address(im)
        held == IF escrow_address \in DOMAIN escrow_resolver.funds
                THEN escrow_resolver.funds[escrow_address] ELSE 0
    IN  /\ escrow_resolver' = [escrow_resolver EXCEPT
               !.escrows = Insert(@, im.order_hash, im),
               !.escrow_addresses = Insert(@, im.order_hash, escrow_address),
               !.total_escrows_created =
                    IF counted THEN saturating_add(@, 1) ELSE @,
               !.funds = IF value = 0 THEN @
                         ELSE Insert(@, escrow_address, held + value)]
        /\ wallet' = [wallet EXCEPT ![caller] = @ - value]

resolver_deploy_src_result(caller, value, ledger_ok) ==
    IF resolver_ensure_owner(caller) # "Ok" THEN resolver_ensure_owner(caller)
    ELSE IF value < min_safety_deposit THEN "InsufficientFunds"
    ELSE IF ~ledger_ok THEN "NativeTokenSendingFailure"
    ELSE "Ok"

resolver_deploy_src ==
    \E caller \in Accounts, immutables \in ResolverImmutables,
       ledger_ok \in BOOLEAN :
    \E value \in DepositInputs(caller) :
        LET immutables_mem == [immutables EXCEPT !.deployed_at = Some(now),
                                                 !.safety_deposit = value]
        IN  /\ resolver_deploy_src_result(caller, value, ledger_ok) = "Ok"
            /\ ResolverStore(caller, immutables_mem, value, TRUE)
            /\ last' = [Outcome("resolver_deploy_src", caller,
                                immutables.order_hash, None)
                            EXCEPT !.input = immutables_mem]
            /\ UNCHANGED <<FusionVars, intent_escrow, job_resolver,
                           relayer_coordinator, now>>

resolver_deploy_dst_result(caller, value, ledger_ok) ==
    IF resolver_ensure_owner(caller) # "Ok" THEN resolver_ensure_owner(caller)
    ELSE IF value > 0 /\ ~ledger_ok THEN "NativeTokenSendingFailure"
    ELSE "Ok"

resolver_deploy_dst ==
    \E caller \in Accounts, dst_immutables \in ResolverImmutables,
       ledger_ok \in BOOLEAN :
    \E value \in {0} :
        /\ resolver_deploy_dst_result(caller, value, ledger_ok) = "Ok"
        /\ ResolverStore(caller, dst_immutables, value, FALSE)
        /\ last' = [Outcome("resolver_deploy_dst", caller,
                            dst_immutables.order_hash, None)
                        EXCEPT !.input = dst_immutables]
        /\ UNCHANGED <<FusionVars, intent_escrow, job_resolver,
                       relayer_coordinator, now>>

resolver_check_withdrawal_timelock(immutables, current_time) ==
    LET deployed_at == IF immutables.deployed_at = NoValue THEN 0
                       ELSE immutables.deployed_at[1]
        withdrawal_time ==
            saturating_add(deployed_at, immutables.timelocks.src_withdrawal)
    IN  IF current_time < withdrawal_time THEN "TimelockNotExpired" ELSE "Ok"

resolver_check_cancellation_timelock(immutables, current_time) ==
    LET deployed_at == IF immutables.deployed_at = NoValue THEN 0
                       ELSE immutables.deployed_at[1]
        cancellation_time ==
            saturating_add(deployed_at, immutables.timelocks.src_cancellation)
    IN  IF current_time < cancellation_time THEN "TimelockNotExpired" ELSE "Ok"

resolver_withdraw_result(oh, secret, immutables) ==
    IF oh \notin DOMAIN escrow_resolver.escrow_addresses THEN "EscrowNotFound"
    ELSE IF Hash(secret) # immutables.hash_lock THEN "InvalidSecret"
    ELSE resolver_check_withdrawal_timelock(immutables, now)

\* The withdrawal itself is a call into the escrow contract, which the
\* resolver takes to succeed: the message emits its event and writes nothing.
resolver_withdraw ==
    \E caller \in {"bob"}, oh \in {ResolverOrderHash}, secret \in Secrets,
       immutables \in ResolverImmutables :
        /\ resolver_withdraw_result(oh, secret, immutables) = "Ok"
        /\ last' = [Outcome("resolver_withdraw", caller, oh, None)
                        EXCEPT !.input = immutables]
        /\ UNCHANGED <<Periphery, FusionVars, intent_escrow, wallet, now>>

resolver_cancel_result(oh, immutables) ==
    IF oh \notin DOMAIN escrow_resolver.escrow_addresses THEN "EscrowNotFound"
    ELSE resolver_check_cancellation_timelock(immutables, now)

resolver_cancel ==
    \E caller \in {"bob"}, oh \in {ResolverOrderHash},
       immutables \in ResolverImmutables :
        /\ resolver_cancel_result(oh, immutables) = "Ok"
        /\ last' = [Outcome("resolver_cancel", caller, oh, None)
                        EXCEPT !.input = immutables,
                               !.amount = immutables.amount]
        /\ UNCHANGED <<Periphery, FusionVars, intent_escrow, wallet, now>>

\* The resolver at any block timestamp of the range.
InitResolver ==
    /\ orders = EmptyMap
    /\ active_hash_locks = EmptyMap
    /\ escrow_addresses = EmptyMap
    /\ owner = Deployer
    /\ paused = FALSE
    /\ protocol_fee_bps \in BpsChoices
    /\ order_nonce = 0
    /\ total_volume = 0
    /\ total_escrows_created = 0
    /\ approved_resolvers = {}
    /\ trusted_relayers = {}
    /\ balance = 0
    /\ wallet = [a \in Accounts |-> InitFunds]
    /\ intent_escrow = IntentEscrow_new
    /\ escrow_resolver = EscrowResolver_new
    /\ job_resolver = JobResolver_new
    /\ relayer_coordinator = RelayerCoordinator_new
    /\ now \in 0 .. TimestampMax
    /\ last = Outcome("new", Deployer, UnknownHash, None)

NextResolver ==
    \/ resolver_deploy_src
    \/ resolver_deploy_dst
    \/ resolver_withdraw
    \/ resolver_cancel

SpecResolver == InitResolver /\ [][NextResolver]_vars

(***************************************************************************)
(* PolkadotResolver (src/contracts/polkadot_resolver/lib.rs): create_job,  *)
(* submit_ethereum_proof, deploy_polkadot_escrow, execute_swap,            *)
(* complete_job, cancel_job, add_trusted_relayer.  A job carries, beside   *)
(* its stored fields, the number of times its stake was transferred to its *)
(* resolver (stake_returned), which the contract does not store.           *)
(***************************************************************************)
MaxJobs == 2
job_min_stake == 1

UnknownJob == <<"job", None>>
JobIds == DOMAIN job_resolver.jobs \cup {UnknownJob}

\* Blake2x256 of (polkadot_order_hash, ethereum_order_hash, caller,
\* current_time, job_nonce), for the one pair of order hashes of the model
JobId(caller, current_time, job_nonce) == <<"job", caller, current_time, job_nonce>>

\* The contract's record after a message: the caller's value enters the
\* contract, then `ts` is paid out.
JobSettle(jr, caller, value, ts) ==
    /\ job_resolver' = [jr EXCEPT !.balance = @ + value - SumAll(ts)]
    /\ wallet' = [a \in Accounts |->
                    wallet[a] - (IF a = caller THEN value ELSE 0) + SumTo(ts, a)]

job_add_trusted_relayer_result(caller) ==
    IF caller # job_resolver.owner THEN "OnlyOwner" ELSE "Ok"

job_add_trusted_relayer ==
    \E caller \in Accounts, relayer \in {"alice"} :
        /\ job_add_trusted_relayer_result(caller) = "Ok"
        /\ job_resolver' = [job_resolver EXCEPT !.trusted_relayers = @ \cup {relayer}]
        /\ last' = [Outcome("job_add_trusted_relayer", caller, UnknownJob, None)
                        EXCEPT !.account = relayer]
        /\ UNCHANGED <<FusionVars, intent_escrow, escrow_resolver,
                       relayer_coordinator, wallet, now>>

create_job_result(stake) ==
    IF stake < job_min_stake THEN "InsufficientStake" ELSE "Ok"

create_job(d) ==
    \E caller \in Resolvers, hash_lock \in HashLocks \ {ZeroHash},
       dl \in d.deadlines :
    \E stake \in 0 .. Min(job_min_stake, wallet[caller]) :
        LET job_id == JobId(caller, now, job_resolver.job_nonce)
            job == [job_id |-> job_id,
                    hash_lock |-> hash_lock,
                    secret |-> NoValue,
                    resolver |-> caller,
                    maker |-> caller,
                    status |-> "Pending",
                    ethereum_escrow_proof |-> NoValue,
                    created_at |-> now,
                    deadline |-> now + dl * TickStep,
                    stake_amount |-> stake,
                    stake_returned |-> 0]
        IN  /\ Cardinality(DOMAIN job_resolver.jobs) < MaxJobs
            /\ create_job_result(stake) = "Ok"
            /\ JobSettle([job_resolver EXCEPT
                              !.jobs = Insert(@, job_id, job),
                              !.job_nonce = @ + 1],
                         caller, stake, <<>>)
            /\ last' = Outcome("create_job", caller, job_id, None)
            /\ UNCHANGED <<FusionVars, intent_escrow, escrow_resolver,
                           relayer_coordinator, now>>

\* block_number != 0 and escrow_address != [0; 20]
verify_ethereum_escrow_proof(proof) == proof

submit_ethereum_proof_result(caller, job_id, proof) ==
    IF caller \notin job_resolver.trusted_relayers THEN "RelayerNotTrusted"
    ELSE IF job_id \notin DOMAIN job_resolver.jobs THEN "JobNotFound"
    ELSE IF job_resolver.jobs[job_id].status # "Pending" THEN "InvalidJobStatus"
    ELSE IF ~verify_ethereum_escrow_proof(proof) THEN "InvalidProof"
    ELSE "Ok"

\* a proof is taken by whether it passes the verification
submit_ethereum_proof ==
    \E caller \in Accounts, job_id \in JobIds, proof \in BOOLEAN :
        /\ submit_ethereum_proof_result(caller, job_id, proof) = "Ok"
        /\ job_resolver' = [job_resolver EXCEPT
               !.jobs[job_id].ethereum_escrow_proof = Some(proof),
               !.jobs[job_id].status = "EthereumDeployed"]
        /\ last' = Outcome("submit_ethereum_proof", caller, job_id, None)
        /\ UNCHANGED <<FusionVars, intent_escrow, escrow_resolver,
                       relayer_coordinator, wallet, now>>

deploy_polkadot_escrow_result(caller, job_id) ==
    IF job_id \notin DOMAIN job_resolver.jobs THEN "JobNotFound"
    ELSE IF caller # job_resolver.jobs[job_id].resolver THEN "OnlyResolver"
    ELSE IF job_resolver.jobs[job_id].status # "EthereumDeployed"
        THEN "InvalidJobStatus"
    ELSE "Ok"

\* call_escrow_deploy returns Ok(true)
deploy_polkadot_escrow ==
    \E caller \in Accounts, job_id \in JobIds :
        /\ deploy_polkadot_escrow_result(caller, job_id) = "Ok"
        /\ job_resolver' = [job_resolver EXCEPT
               !.jobs[job_id].status = "PolkadotDeployed"]
        /\ last' = Outcome("deploy_polkadot_escrow", caller, job_id, None)
        /\ UNCHANGED <<FusionVars, intent_escrow, escrow_resolver,
                       relayer_coordinator, wallet, now>>

job_execute_swap_result(caller, job_id, secret) ==
    IF job_id \notin DOMAIN job_resolver.jobs THEN "JobNotFound"
    ELSE IF caller # job_resolver.jobs[job_id].resolver THEN "OnlyResolver"
    ELSE IF job_resolver.jobs[job_id].status # "PolkadotDeployed"
        THEN "InvalidJobStatus"
    ELSE IF Hash(secret) # job_resolver.jobs[job_id].hash_lock THEN "InvalidSecret"
    ELSE "Ok"

\* call_escrow_execute returns Ok(true)
job_execute_swap ==
    \E caller \in Accounts, job_id \in JobIds, secret \in Secrets :
        /\ job_execute_swap_result(caller, job_id, secret) = "Ok"
        /\ job_resolver' = [job_resolver EXCEPT
               !.jobs[job_id].secret = Some(secret),
               !.jobs[job_id].status = "Executing"]
        /\ last' = Outcome("job_execute_swap", caller, job_id, None)
        /\ UNCHANGED <<FusionVars, intent_escrow, escrow_resolver,
                       relayer_coordinator, wallet, now>>

\* the transfer of a job's stake to its resolver
StakeTransfers(job) == <<(<<job.resolver, job.stake_amount>>)>>

complete_job_result(caller, job_id, success, ledger_ok) ==
    IF caller \notin job_resolver.trusted_relayers THEN "RelayerNotTrusted"
    ELSE IF job_id \notin DOMAIN job_resolver.jobs THEN "JobNotFound"
    ELSE IF job_resolver.jobs[job_id].status # "Executing" THEN "InvalidJobStatus"
    ELSE IF success /\ ~(ledger_ok /\ job_resolver.jobs[job_id].stake_amount
                                        <= job_resolver.balance)
        THEN "EscrowContractError"
    ELSE "Ok"

complete_job ==
    \E caller \in Accounts, job_id \in JobIds, success \in BOOLEAN,
       ledger_ok \in BOOLEAN :
        /\ complete_job_result(caller, job_id, success, ledger_ok) = "Ok"
        /\ LET job == job_resolver.jobs[job_id]
           IN  IF success
               THEN JobSettle([job_resolver EXCEPT
                                  !.jobs[job_id].status = "Completed",
                                  !.jobs[job_id].stake_returned = @ + 1,
                                  !.total_jobs_completed = @ + 1],
                              caller, 0, StakeTransfers(job))
               ELSE JobSettle([job_resolver EXCEPT
                                  !.jobs[job_id].status = "Failed"],
                              caller, 0, <<>>)
        /\ last' = [Outcome("complete_job", caller, job_id, None)
                        EXCEPT !.reason = IF success THEN "success" ELSE "failure"]
        /\ UNCHANGED <<FusionVars, intent_escrow, escrow_resolver,
                       relayer_coordinator, now>>

\* whether cancel_job refunds the stake
cancel_job_refunds(caller, job, current_time) ==
    current_time > job.deadline \/ caller # job.resolver

cancel_job_result(caller, job_id, ledger_ok) ==
    IF job_id \notin DOMAIN job_resolver.jobs THEN "JobNotFound"
    ELSE LET job == job_resolver.jobs[job_id]
             can_cancel == \/ caller = job.resolver
                           \/ now > job.deadline
                           \/ caller \in job_resolver.trusted_relayers
    IN  IF ~can_cancel THEN "Unauthorized"
        ELSE IF cancel_job_refunds(caller, job, now)
                /\ ~(ledger_ok /\ job.stake_amount <= job_resolver.balance)
            THEN "EscrowContractError"
        ELSE "Ok"

cancel_job ==
    \E caller \in Accounts, job_id \in JobIds, ledger_ok \in BOOLEAN :
        /\ cancel_job_result(caller, job_id, ledger_ok) = "Ok"
        /\ LET job == job_resolver.jobs[job_id]
           IN  IF cancel_job_refunds(caller, job, now)
               THEN JobSettle([job_resolver EXCEPT
                                  !.jobs[job_id].status = "Cancelled",
                                  !.jobs[job_id].stake_returned = @ + 1],
                              caller, 0, StakeTransfers(job))
               ELSE JobSettle([job_resolver EXCEPT
                                  !.jobs[job_id].status = "Cancelled"],
                              caller, 0, <<>>)
        /\ last' = Outcome("cancel_job", caller, job_id, None)
        /\ UNCHANGED <<FusionVars, intent_escrow, escrow_resolver,
                       relayer_coordinator, now>>

\* Two jobs of one resolver, with a deadline one tick ahead.
JobInputs ==
    [deadlines |-> {1},
     ticks |-> {2},
     horizon |-> 2]

NextJobs ==
    \/ job_add_trusted_relayer
    \/ create_job(JobInputs)
    \/ submit_ethereum_proof
    \/ deploy_polkadot_escrow
    \/ job_execute_swap
    \/ complete_job
    \/ cancel_job
    \/ Tick(JobInputs)

SpecJobs == Init /\ [][NextJobs]_vars

(***************************************************************************)
(* RelayerCoordinator (src/contracts/relayer_coordinator/lib.rs):          *)
(* set_intent_escrow, set_paused, force_deactivate_relayer,                *)
(* register_relayer, deactivate_relayer, withdraw_stake,                   *)
(* report_order_completion.  assign_relayer_to_order ends in                *)
(* Err(NoAvailableRelayers) under every strategy, so it never commits and  *)
(* order_assignments stays empty.                                          *)
(***************************************************************************)
coordinator_min_stake == 1
max_relayers == 2
InitialReputation == 500
MaxReputation == 1000

CoordinatorSettle(rc, caller, value, ts) ==
    /\ relayer_coordinator' = [rc EXCEPT !.balance = @ + value - SumAll(ts)]
    /\ wallet' = [a \in Accounts |->
                    wallet[a] - (IF a = caller THEN value ELSE 0) + SumTo(ts, a)]

coordinator_owner_result(caller) ==
    IF caller # relayer_coordinator.owner THEN "Unauthorized" ELSE "Ok"

set_intent_escrow ==
    \E caller \in Accounts, escrow \in {"alice"} :
        /\ coordinator_owner_result(caller) = "Ok"
        /\ relayer_coordinator' = [relayer_coordinator EXCEPT !.intent_escrow = escrow]
        /\ last' = [Outcome("set_intent_escrow", caller, UnknownId, None)
                        EXCEPT !.account = escrow]
        /\ UNCHANGED <<FusionVars, intent_escrow, escrow_resolver, job_resolver,
                       wallet, now>>

coordinator_set_paused ==
    \E caller \in Accounts, p \in BOOLEAN :
        /\ coordinator_owner_result(caller) = "Ok"
        /\ relayer_coordinator' = [relayer_coordinator EXCEPT !.paused = p]
        /\ last' = Outcome("coordinator_set_paused", caller, UnknownId, None)
        /\ UNCHANGED <<FusionVars, intent_escrow, escrow_resolver, job_resolver,
                       wallet, now>>

force_deactivate_relayer_result(caller, relayer) ==
    IF coordinator_owner_result(caller) # "Ok" THEN coordinator_owner_result(caller)
    ELSE IF relayer \notin DOMAIN relayer_coordinator.relayers THEN "RelayerNotFound"
    ELSE "Ok"

\* u32::saturating_sub(1)
saturating_dec(n) == IF n = 0 THEN 0 ELSE n - 1

force_deactivate_relayer ==
    \E caller \in Accounts, relayer \in Accounts :
        /\ force_deactivate_relayer_result(caller, relayer) = "Ok"
        /\ relayer_coordinator' =
              IF relayer_coordinator.relayers[relayer].is_active
              THEN [relayer_coordinator EXCEPT
                       !.relayers[relayer].is_active = FALSE,
                       !.active_relayer_count = saturating_dec(@)]
              ELSE relayer_coordinator
        /\ last' = [Outcome("force_deactivate_relayer", caller, UnknownId, None)
                        EXCEPT !.account = relayer,
                               !.events =
                                   IF relayer_coordinator.relayers[relayer].is_active
                                   THEN <<"RelayerDeactivated">> ELSE <<>>]
        /\ UNCHANGED <<FusionVars, intent_escrow, escrow_resolver, job_resolver,
                       wallet, now>>

\* A faulty variant: the limit on active relayers is not checked.
register_relayer_result_unlimited(stake) ==
    IF relayer_coordinator.paused THEN "ContractPaused"
    ELSE IF stake < coordinator_min_stake THEN "InsufficientStake"
    ELSE "Ok"

register_relayer_result(stake) ==
    IF relayer_coordinator.paused THEN "ContractPaused"
    ELSE IF stake < coordinator_min_stake THEN "InsufficientStake"
    ELSE IF relayer_coordinator.active_relayer_count >= max_relayers
        THEN "MaxRelayersReached"
    ELSE "Ok"

register_relayer ==
    \E caller \in Accounts :
    \E stake \in 0 .. Min(coordinator_min_stake, wallet[caller]) :
        /\ register_relayer_result(stake) = "Ok"
        /\ LET rc == relayer_coordinator
               registered ==
                   IF caller \in DOMAIN rc.relayers
                   THEN IF ~rc.relayers[caller].is_active
                        THEN [rc EXCEPT
                                 !.relayers[caller].stake = @ + stake,
                                 !.relayers[caller].is_active = TRUE,
                                 !.active_relayer_count = @ + 1]
                        ELSE [rc EXCEPT !.relayers[caller].stake = @ + stake]
                   ELSE [rc EXCEPT
                            !.relayers = Insert(@, caller,
                                [stake |-> stake,
                                 is_active |-> TRUE,
                                 total_orders_resolved |-> 0,
                                 reputation_score |-> InitialReputation]),
                            !.active_relayer_count = @ + 1]
               event == IF caller \notin DOMAIN rc.relayers THEN "RelayerRegistered"
                        ELSE IF ~rc.relayers[caller].is_active
                        THEN "RelayerReactivated" ELSE "RelayerStakeIncreased"
           IN  /\ CoordinatorSettle([registered EXCEPT !.total_stakes = @ + stake],
                                    caller, stake, <<>>)
               /\ last' = [Outcome("register_relayer", caller, UnknownId, None)
                               EXCEPT !.amount = stake, !.events = <<event>>]
        /\ UNCHANGED <<FusionVars, intent_escrow, escrow_resolver, job_resolver, now>>

deactivate_relayer_result(caller) ==
    IF caller \notin DOMAIN relayer_coordinator.relayers THEN "RelayerNotFound"
    ELSE IF ~relayer_coordinator.relayers[caller].is_active THEN "RelayerNotActive"
    ELSE "Ok"

deactivate_relayer ==
    \E caller \in Accounts :
        /\ deactivate_relayer_result(caller) = "Ok"
        /\ relayer_coordinator' = [relayer_coordinator EXCEPT
               !.relayers[caller].is_active = FALSE,
               !.active_relayer_count = saturating_dec(@)]
        /\ last' = Outcome("deactivate_relayer", caller, UnknownId, None)
        /\ UNCHANGED <<FusionVars, intent_escrow, escrow_resolver, job_resolver,
                       wallet, now>>

withdraw_stake_result(caller, amount, ledger_ok) ==
    IF caller \notin DOMAIN relayer_coordinator.relayers THEN "RelayerNotFound"
    ELSE IF relayer_coordinator.relayers[caller].is_active THEN "RelayerNotActive"
    ELSE IF amount > relayer_coordinator.relayers[caller].stake THEN "InsufficientStake"
    ELSE IF amount > relayer_coordinator.total_stakes THEN "ArithmeticOverflow"
    ELSE IF ~(ledger_ok /\ amount <= relayer_coordinator.balance)
        THEN "ArithmeticOverflow"
    ELSE "Ok"

withdraw_stake ==
    \E caller \in Accounts, amount \in 0 .. InitFunds, ledger_ok \in BOOLEAN :
        /\ withdraw_stake_result(caller, amount, ledger_ok) = "Ok"
        /\ LET rc == relayer_coordinator
               remaining_stake == rc.relayers[caller].stake - amount
               withdrawn ==
                   IF remaining_stake > 0
                   THEN [rc EXCEPT !.relayers[caller].stake = remaining_stake]
                   ELSE [rc EXCEPT !.relayers = Remove(@, caller)]
           IN  /\ CoordinatorSettle([withdrawn EXCEPT !.total_stakes = @ - amount],
                                    caller, 0, <<(<<caller, amount>>)>>)
               /\ last' = [Outcome("withdraw_stake", caller, UnknownId, None)
                               EXCEPT !.amount = amount,
                                      !.events = IF remaining_stake > 0 THEN <<>>
                                                 ELSE <<"RelayerRemoved">>]
        /\ UNCHANGED <<FusionVars, intent_escrow, escrow_resolver, job_resolver, now>>

report_order_completion_result(caller) ==
    IF caller # relayer_coordinator.intent_escrow THEN "Unauthorized" ELSE "Ok"

\* The coordinator after report_order_completion(order_id, success).
Reported(rc, order_id, success) ==
    IF order_id \notin DOMAIN rc.order_assignments THEN rc
    ELSE LET relayer == rc.order_assignments[order_id]
             cleaned == [rc EXCEPT !.order_assignments = Remove(@, order_id)]
         IN  IF relayer \notin DOMAIN rc.relayers THEN cleaned
             ELSE IF success
             THEN [cleaned EXCEPT
                      !.relayers[relayer].total_orders_resolved = @ + 1,
                      !.relayers[relayer].reputation_score = Min(@ + 10, MaxReputation),
                      !.relayer_penalties = Remove(@, relayer)]
             ELSE LET penalties ==
                          (IF relayer \in DOMAIN rc.relayer_penalties
                           THEN rc.relayer_penalties[relayer] ELSE 0) + 1
                      penalised ==
                          [cleaned EXCEPT
                              !.relayers[relayer].reputation_score =
                                  IF @ < 20 THEN 0 ELSE @ - 20,
                              !.relayer_penalties = Insert(@, relayer, penalties)]
                  IN  IF penalties >= rc.penalty_threshold
                      THEN [penalised EXCEPT
                               !.relayers[relayer].is_active = FALSE,
                               !.active_relayer_count = saturating_dec(@)]
                      ELSE penalised

report_order_completion ==
    \E caller \in Accounts, order_id \in 0 .. 1, success \in BOOLEAN :
        /\ report_order_completion_result(caller) = "Ok"
        /\ relayer_coordinator' = Reported(relayer_coordinator, order_id, success)
        /\ last' = [Outcome("report_order_completion", caller, order_id, None)
                        EXCEPT !.reason = IF success THEN "success" ELSE "failure"]
        /\ UNCHANGED <<FusionVars, intent_escrow, escrow_resolver, job_resolver,
                       wallet, now>>

NextRelayers ==
    \/ set_intent_escrow
    \/ coordinator_set_paused
    \/ force_deactivate_relayer
    \/ register_relayer
    \/ deactivate_relayer
    \/ withdraw_stake
    \/ report_order_completion

SpecRelayers == Init /\ [][NextRelayers]_vars

(***************************************************************************)
(* Properties of the hash-lock index.                                      *)
(***************************************************************************)

\* C1: every Locked or PartialFill order is the value of the hash-lock index
\* under its own hash_lock, and no Executed, Cancelled or Refunded order is
\* the value of any index entry.
C1_HashLockIndex ==
    \A oh \in DOMAIN orders :
        /\ orders[oh].status \in Active =>
              /\ orders[oh].hash_lock \in DOMAIN active_hash_locks
              /\ active_hash_locks[orders[oh].hash_lock] = oh
        /\ orders[oh].status \in Terminal =>
              \A h \in DOMAIN active_hash_locks : active_hash_locks[h] # oh

\* C2: two distinct orders are never both Locked or PartialFill with the
\* same hash_lock.
C2_UniqueHashLock ==
    \A a, b \in DOMAIN orders :
        (a # b /\ orders[a].status \in Active /\ orders[b].status \in Active)
            => orders[a].hash_lock # orders[b].hash_lock

\* C21: deploy_escrow on a Pending order with a hash_lock that the hash-lock
\* index maps to another order never succeeds, and returns
\* HashLockAlreadyUsed when the contract is not paused and the deposit reaches
\* the minimum; likewise assign_resolver in IntentEscrow, with
\* OrderAlreadyExists.  The call is reverted: the order stays Pending and the
\* entry keeps its order.  (deploy_src makes no such check: C1, C2.)
C21_HashLockCollision ==
    /\ \A oh \in DOMAIN orders, h \in DOMAIN active_hash_locks,
          value \in 0 .. min_safety_deposit :
          (orders[oh].status = "Pending" /\ active_hash_locks[h] # oh)
          => /\ deploy_escrow_result(oh, h, value) # "Ok"
             /\ (~paused /\ value >= min_safety_deposit)
                  => deploy_escrow_result(oh, h, value) = "HashLockAlreadyUsed"
    /\ \A id \in DOMAIN intent_escrow.orders,
          h \in DOMAIN intent_escrow.active_htlcs,
          value \in 0 .. min_resolver_stake :
          (intent_escrow.orders[id].status = "Pending"
             /\ intent_escrow.active_htlcs[h] # id)
          => /\ assign_resolver_result(id, h, value) # "Ok"
             /\ (~intent_escrow.paused /\ value >= min_resolver_stake)
                  => assign_resolver_result(id, h, value) = "OrderAlreadyExists"

\* in both contracts one order is locked under the hash of a secret while a
\* second one is Pending, and a resolver holds the deposit to lock it
C21_Witness ==
    /\ \E o1, o2 \in DOMAIN orders :
          /\ orders[o1].status = "Locked"
          /\ orders[o1].hash_lock = Hash(1)
          /\ Hash(1) \in DOMAIN active_hash_locks
          /\ active_hash_locks[Hash(1)] = o1
          /\ orders[o2].status = "Pending"
    /\ \E i1, i2 \in DOMAIN intent_escrow.orders :
          /\ intent_escrow.orders[i1].status = "Locked"
          /\ intent_escrow.orders[i1].hashlock = Hash(1)
          /\ Hash(1) \in DOMAIN intent_escrow.active_htlcs
          /\ intent_escrow.active_htlcs[Hash(1)] = i1
          /\ intent_escrow.orders[i2].status = "Pending"
    /\ \E caller \in Resolvers : wallet[caller] >= min_safety_deposit

(***************************************************************************)
(* Properties of the order life cycle.                                     *)
(***************************************************************************)

\* C3: once an order is Executed, Cancelled or Refunded, no message changes
\* its status again.
C3_TerminalIsFinal ==
    [][\A oh \in DOMAIN orders :
          orders[oh].status \in Terminal
              => orders'[oh].status = orders[oh].status]_vars

\* what the contract holds for an order that is not terminal
Outstanding(oh) ==
    IF orders[oh].status \in Terminal THEN 0
    ELSE (orders[oh].src_amount - orders[oh].filled_amount)
         + orders[oh].safety_deposit

RECURSIVE SumOutstanding(_)
SumOutstanding(S) ==
    IF S = {} THEN 0
    ELSE LET oh == CHOOSE x \in S : TRUE
         IN  Outstanding(oh) + SumOutstanding(S \ {oh})

\* C4: the contract's balance equals the sum over non-terminal orders of
\* (src_amount - filled_amount) plus their safety deposits.
C4_Conservation == balance = SumOutstanding(DOMAIN orders)

(***************************************************************************)
(* Properties of execution.                                                *)
(***************************************************************************)

C10_DepositReleased ==
    [][\A oh \in DOMAIN orders :
          (orders[oh].status # "Executed" /\ orders'[oh].status = "Executed")
          => LET r == orders[oh].resolver
                 share == IF last'.op = "execute_partial_fill" THEN 0
                          ELSE SumTo(SwapTransfers(orders[oh]), r)
             IN  wallet'[r] - wallet[r] >= share + orders[oh].safety_deposit]_vars

(***************************************************************************)
(* Properties of the counters.                                             *)
(***************************************************************************)

\* C22: total_volume never decreases, and whenever an order becomes
\* Executed, by execute_swap, withdraw or a completing execute_partial_fill,
\* total_volume grows by its src_amount, so that it is the sum of src_amount
\* over the orders that have reached Executed.
C22_TotalVolume ==
    [][/\ total_volume' >= total_volume
       /\ \A oh \in DOMAIN orders :
             (orders[oh].status # "Executed" /\ orders'[oh].status = "Executed")
             => total_volume' = total_volume + orders[oh].src_amount]_vars

C24_CreateRejected ==
    \A caller \in Makers, amount \in 0 .. MaxAmount, value \in 0 .. MaxAmount,
       deadline \in {now + k * TickStep : k \in -1 .. 1} :
        LET fusion == create_order_result(caller, amount, deadline, value)
            intent == submit_fusion_intent_result(amount, deadline, value)
        IN  /\ (deadline <= now \/ value < amount)
                  => fusion # "Ok" /\ intent # "Ok"
            /\ deadline <= now
                  => /\ ~paused => fusion = "DeadlineExpired"
                     /\ ~intent_escrow.paused => intent = "DeadlineExpired"
            /\ (deadline > now /\ value < amount)
                  => /\ ~paused => fusion = "InsufficientFunds"
                     /\ ~intent_escrow.paused => intent = "InsufficientFunds"

\* neither contract is paused, the clock has moved, so that deadlines before
\* now exist, and a maker holds funds: a create gets as far as these checks
C24_Witness ==
    /\ ~paused /\ ~intent_escrow.paused
    /\ now > 0
    /\ last.op = "tick"
    /\ \E caller \in Makers : wallet[caller] > 0

AdminMessages ==
    {"set_paused", "approve_resolver", "add_trusted_relayer", "transfer_ownership"}

C26_PausedFreezesOrders ==
    [][paused => /\ orders' = orders
                 /\ balance' = balance
                 /\ wallet' = wallet]_vars

\* C27: every successful operation that changes an order's status or
\* filled_amount appends exactly one event to the log.
C27_OneEventPerTransition ==
    [][(orders' # orders \/ intent_escrow'.orders # intent_escrow.orders)
            => Len(last'.events) = 1]_vars

\* C28: create_order with any transferred funds >= src_amount followed by the
\* maker's cancel_order before any lock leaves the maker's balance as it was
\* before the two operations.
C28_CreateCancelNetZero ==
    [][\A oh \in DOMAIN orders :
          (/\ last'.op = "cancel_order"
           /\ last'.order_hash = oh
           /\ last'.caller = orders[oh].maker
           /\ orders[oh].status = "Pending")
            => wallet'[orders[oh].maker] = InitFunds]_vars

\* What the ledger's refusal of a transfer does to the three settling
\* messages; a message whose funds the contract does not hold is refused by
\* every ledger.
TransferFailedOnRefusal ==
    \A oh \in DOMAIN orders :
        /\ \A secret \in Secrets :
              LET ok == execute_swap_internal_result(oh, secret, TRUE)
                  refused == execute_swap_internal_result(oh, secret, FALSE)
              IN  (ok \in {"Ok", "TransferFailed"} /\ SwapTransfers(orders[oh]) # <<>>)
                    <=> refused = "TransferFailed"
        /\ LET ok == cancel_result(oh, TRUE)
               refused == cancel_result(oh, FALSE)
           IN  (ok \in {"Ok", "TransferFailed"} /\ RefundTransfers(orders[oh]) # <<>>)
                    <=> refused = "TransferFailed"
        /\ \A caller \in Accounts :
              LET ok == cancel_order_result(caller, oh, TRUE)
                  refused == cancel_order_result(caller, oh, FALSE)
              IN  (ok \in {"Ok", "TransferFailed"} /\ RefundTransfers(orders[oh]) # <<>>)
                    <=> refused = "TransferFailed"

\* C29: when the ledger refuses a transfer inside execute_swap, cancel or
\* cancel_order, a message that would otherwise succeed returns
\* TransferFailed, whatever transfers came before; a step of one of these
\* messages has made every one of its transfers, so that a message either
\* commits wholly or not at all.
C29_TransferFailedAtomic ==
    [][/\ TransferFailedOnRefusal
       /\ TransferFailedOnRefusal'
       /\ \A oh \in DOMAIN orders :
             (last'.order_hash = oh
              /\ last'.op \in {"execute_swap", "withdraw", "cancel", "cancel_order"})
                => LET ts == IF last'.op \in {"cancel", "cancel_order"}
                             THEN RefundTransfers(orders[oh])
                             ELSE SwapTransfers(orders[oh])
                   IN  /\ balance' = balance - SumAll(ts)
                       /\ \A a \in Accounts : wallet'[a] = wallet[a] + SumTo(ts, a)
                       /\ orders'[oh].status \in {"Executed", "Cancelled"}]_vars

\* a locked order whose swap and whose cancellation by the maker fail only
\* because the ledger refuses
C29_Witness ==
    \E oh \in DOMAIN orders, secret \in Secrets :
        /\ orders[oh].status = "Locked"
        /\ execute_swap_internal_result(oh, secret, TRUE) = "Ok"
        /\ execute_swap_internal_result(oh, secret, FALSE) = "TransferFailed"
        /\ cancel_order_result(orders[oh].maker, oh, TRUE) = "Ok"
        /\ cancel_order_result(orders[oh].maker, oh, FALSE) = "TransferFailed"

\* C30: a cancellation of an order in a terminal status is rejected with
\* InvalidOrderStatus, as every other message the order's status has no
\* transition for.
C30_TerminalCancelRejected ==
    \A oh \in DOMAIN orders :
        (~paused /\ orders[oh].status \in Terminal)
            => /\ \A caller \in Accounts :
                     cancel_order_result(caller, oh, TRUE) = "InvalidOrderStatus"
               /\ oh \in DOMAIN escrow_addresses
                     => cancel_result(oh, TRUE) = "InvalidOrderStatus"

(***************************************************************************)
(* Properties of settlement.                                               *)
(***************************************************************************)
Executions == {"execute_swap", "withdraw"}

RECURSIVE TotalOf(_, _)
TotalOf(w, S) ==
    IF S = {} THEN 0
    ELSE LET a == CHOOSE x \in S : TRUE IN w[a] + TotalOf(w, S \ {a})

\* C11: in every execute_swap or withdraw, with protocol_fee_bps <= 10000,
\* protocol_fee = floor(src_amount * bps / 10000) (the quotient q with
\* q * 10000 <= src_amount * bps < (q + 1) * 10000, which is what the owner
\* receives), resolver_fee = min(requested, src_amount - protocol_fee), none
\* of protocol_fee, resolver_fee and net is negative, their sum is src_amount,
\* and the transfers of the call add up to src_amount in both directions.
C11_FeeArithmetic ==
    [][(last'.op \in Executions /\ protocol_fee_bps <= 10000)
        => LET o == orders[last'.order_hash]
               protocol_fee == calculate_protocol_fee(o.src_amount)
               after_protocol == o.src_amount - protocol_fee
               resolver_fee == IF o.resolver_fee <= after_protocol
                               THEN o.resolver_fee ELSE after_protocol
               net == o.src_amount - protocol_fee - resolver_fee
           IN  /\ protocol_fee * 10000 <= o.src_amount * protocol_fee_bps
               /\ o.src_amount * protocol_fee_bps < (protocol_fee + 1) * 10000
               /\ owner \notin {o.maker, o.resolver}
                    => wallet'[owner] - wallet[owner] = protocol_fee
               /\ protocol_fee >= 0 /\ resolver_fee >= 0 /\ net >= 0
               /\ protocol_fee + resolver_fee + net = o.src_amount
               /\ SumAll(SwapTransfers(o)) = o.src_amount
               /\ balance - balance' = o.src_amount
               /\ TotalOf(wallet', Accounts) - TotalOf(wallet, Accounts)
                    = o.src_amount]_vars

\* a swap was executed where the fee is rounded down and the requested
\* resolver fee exceeds what the protocol fee leaves
C11_Witness ==
    /\ last.op = "execute_swap"
    /\ LET o == orders[last.order_hash]
       IN  /\ (o.src_amount * protocol_fee_bps) % 10000 # 0
           /\ o.resolver_fee > o.src_amount - calculate_protocol_fee(o.src_amount)
           /\ o.direction = "EthereumToPolkadot"

\* C12: a successful execute_swap or withdraw pays, for PolkadotToEthereum,
\* nothing to the maker, net + resolver_fee to the resolver and protocol_fee
\* to the owner; for EthereumToPolkadot, net to the maker, resolver_fee to the
\* resolver and protocol_fee to the owner; and nothing to anyone else.
C12_PayoutRouting ==
    [][last'.op \in Executions
        => LET o == orders[last'.order_hash]
               protocol_fee == (o.src_amount * protocol_fee_bps) \div 10000
               after_protocol == o.src_amount - protocol_fee
               resolver_fee == Min(o.resolver_fee, after_protocol)
               net == after_protocol - resolver_fee
               a_to_b == o.direction = "PolkadotToEthereum"
               to_maker == IF a_to_b THEN 0 ELSE net
               to_resolver == IF a_to_b THEN net + resolver_fee ELSE resolver_fee
           IN  \A a \in Accounts :
                   wallet'[a] - wallet[a] =
                       (IF a = o.maker THEN to_maker ELSE 0)
                       + (IF a = o.resolver THEN to_resolver ELSE 0)
                       + (IF a = owner THEN protocol_fee ELSE 0)]_vars

\* a PolkadotToEthereum swap was executed with all three shares positive
C12_Witness ==
    /\ last.op = "execute_swap"
    /\ LET o == orders[last.order_hash]
           protocol_fee == (o.src_amount * protocol_fee_bps) \div 10000
       IN  /\ o.direction = "PolkadotToEthereum"
           /\ protocol_fee > 0
           /\ o.resolver_fee > 0
           /\ o.src_amount - protocol_fee > o.resolver_fee

(***************************************************************************)
(* Properties of secrets and fills.                                        *)
(***************************************************************************)
IntentActive == {"Locked", "PartiallyFilled"}

\* C13: a call of execute_swap, withdraw or execute_partial_fill, or of
\* IntentEscrow's execute_swap, on a locked order with a secret whose hash is
\* not the order's hash_lock never succeeds, so it is reverted and changes
\* nothing.  The error is InvalidSecret whenever nothing checked earlier
\* fails: for withdraw always, for execute_partial_fill when the contract is
\* not paused, for the two execute_swap when the contract is not paused, the
\* order is Locked (Locked or PartiallyFilled in IntentEscrow) and its
\* deadline (timelock) has not passed.
C13_InvalidSecret ==
    /\ \A oh \in DOMAIN orders, s \in Secrets :
          (orders[oh].status \in Active /\ Hash(s) # orders[oh].hash_lock)
          => /\ \A ledger_ok \in BOOLEAN :
                   /\ execute_swap_internal_result(oh, s, ledger_ok) # "Ok"
                   /\ withdraw_result(oh, s, ledger_ok) = "InvalidSecret"
                   /\ (/\ ~paused
                       /\ orders[oh].status = "Locked"
                       /\ now <= orders[oh].fill_deadline)
                      => execute_swap_internal_result(oh, s, ledger_ok)
                             = "InvalidSecret"
             /\ \A fill_amount \in 0 .. MaxAmount :
                   /\ execute_partial_fill_result(oh, fill_amount, s) # "Ok"
                   /\ ~paused => execute_partial_fill_result(oh, fill_amount, s)
                                     = "InvalidSecret"
    /\ \A id \in DOMAIN intent_escrow.orders, s \in Secrets,
          amount \in 0 .. MaxAmount :
          LET order == intent_escrow.orders[id]
          IN  (order.status \in IntentActive /\ Hash(s) # order.hashlock)
              => /\ intent_execute_swap_result(id, s, amount) # "Ok"
                 /\ (~intent_escrow.paused /\ now <= order.timelock)
                    => intent_execute_swap_result(id, s, amount) = "InvalidSecret"

\* in both contracts an order is locked under the hash of a secret, the
\* contract is not paused and the deadline has not passed, so that a call with
\* another secret gets as far as the comparison
C13_Witness ==
    /\ ~paused /\ ~intent_escrow.paused
    /\ \E oh \in DOMAIN orders, s \in Secrets :
          /\ orders[oh].status = "Locked"
          /\ orders[oh].hash_lock = Hash(1)
          /\ now <= orders[oh].fill_deadline
          /\ Hash(s) # orders[oh].hash_lock
    /\ \E id \in DOMAIN intent_escrow.orders, s \in Secrets :
          /\ intent_escrow.orders[id].status = "PartiallyFilled"
          /\ intent_escrow.orders[id].hashlock = Hash(1)
          /\ now <= intent_escrow.orders[id].timelock
          /\ Hash(s) # intent_escrow.orders[id].hashlock

\* C14: filled_amount <= src_amount for every order of the fusion escrow, and
\* filled_amount <= from_amount for every order of IntentEscrow, in every
\* reachable state.
C14_FilledWithinAmount ==
    /\ \A oh \in DOMAIN orders :
          orders[oh].filled_amount <= orders[oh].src_amount
    /\ \A id \in DOMAIN intent_escrow.orders :
          intent_escrow.orders[id].filled_amount
              <= intent_escrow.orders[id].from_amount

\* both contracts hold an order filled to the last unit by partial fills
C14_Witness ==
    /\ \E oh \in DOMAIN orders :
          /\ orders[oh].filled_amount = orders[oh].src_amount
          /\ orders[oh].secret = NoValue
          /\ orders[oh].status = "Executed"
    /\ last.op = "intent_execute_swap"
    /\ last.amount > 0
    /\ intent_escrow.orders[last.order_hash].filled_amount
          = intent_escrow.orders[last.order_hash].from_amount
    /\ last.amount < intent_escrow.orders[last.order_hash].from_amount

\* The original statement of C15: in every reachable state, an order with
\* filled_amount > 0 is PartialFill or Executed (PartiallyFilled or Executed
\* in IntentEscrow).
C15_FilledImpliesFilling ==
    /\ \A oh \in DOMAIN orders :
          orders[oh].filled_amount > 0
              => orders[oh].status \in {"PartialFill", "Executed"}
    /\ \A id \in DOMAIN intent_escrow.orders :
          intent_escrow.orders[id].filled_amount > 0
              => intent_escrow.orders[id].status \in {"PartiallyFilled", "Executed"}

\* C15 as amended: in every reachable state, an order with filled_amount > 0
\* is PartialFill, Executed or Cancelled (PartiallyFilled, Executed or
\* Refunded in IntentEscrow): a cancellation or refund keeps the
\* filled_amount of the order it closes.
C15_FilledImpliesFilledOrClosed ==
    /\ \A oh \in DOMAIN orders :
          orders[oh].filled_amount > 0
              => orders[oh].status \in {"PartialFill", "Executed", "Cancelled"}
    /\ \A id \in DOMAIN intent_escrow.orders :
          intent_escrow.orders[id].filled_amount > 0
              => intent_escrow.orders[id].status
                     \in {"PartiallyFilled", "Executed", "Refunded"}

\* both contracts hold a partly filled order that was then cancelled or
\* refunded
C15_Witness ==
    /\ \E oh \in DOMAIN orders :
          /\ orders[oh].status = "Cancelled"
          /\ orders[oh].filled_amount > 0
          /\ orders[oh].filled_amount < orders[oh].src_amount
    /\ last.op = "refund_order"
    /\ intent_escrow.orders[last.order_hash].status = "Refunded"
    /\ intent_escrow.orders[last.order_hash].filled_amount > 0

\* C16: in every reachable state, an order whose stored secret is Some(s) has
\* hash(s) = hash_lock.
C16_SecretMatchesHashLock ==
    \A oh \in DOMAIN orders :
        orders[oh].secret # NoValue
            => Hash(orders[oh].secret[1]) = orders[oh].hash_lock

\* an order that stored its secret at execution has since been touched by
\* another message, which kept its hash_lock
C16_Witness ==
    /\ last.op \in {"cancel", "deploy_dst"}
    /\ orders[last.order_hash].secret # NoValue
    /\ orders[last.order_hash].hash_lock = Hash(orders[last.order_hash].secret[1])

Locks == {"deploy_src", "deploy_escrow"}

\* C17: an order is locked with filled_amount = 0, and every successful
\* partial fill (execute_partial_fill; execute_swap in IntentEscrow) adds its
\* amount to filled_amount, so that filled_amount is the sum of the amounts
\* filled; it leaves the order PartialFill (PartiallyFilled) with its index
\* entry in place when that sum is below src_amount (from_amount), and
\* Executed with no index entry under its hash_lock when the sum reaches it.
C17_PartialFillAccounting ==
    [][/\ last'.op \in Locks => orders'[last'.order_hash].filled_amount = 0
       /\ last'.op = "execute_partial_fill"
            => LET before == orders[last'.order_hash]
                   after == orders'[last'.order_hash]
               IN  /\ after.filled_amount = before.filled_amount + last'.amount
                   /\ after.filled_amount < before.src_amount
                        => /\ after.status = "PartialFill"
                           /\ active_hash_locks' = active_hash_locks
                   /\ after.filled_amount = before.src_amount
                        => /\ after.status = "Executed"
                           /\ before.hash_lock \notin DOMAIN active_hash_locks'
                   /\ after.filled_amount <= before.src_amount
       /\ last'.op = "assign_resolver"
            => intent_escrow'.orders[last'.order_hash].filled_amount = 0
       /\ last'.op = "intent_execute_swap"
            => LET before == intent_escrow.orders[last'.order_hash]
                   after == intent_escrow'.orders[last'.order_hash]
               IN  /\ after.filled_amount = before.filled_amount + last'.amount
                   /\ after.filled_amount < before.from_amount
                        => /\ after.status = "PartiallyFilled"
                           /\ intent_escrow'.active_htlcs = intent_escrow.active_htlcs
                   /\ after.filled_amount = before.from_amount
                        => /\ after.status = "Executed"
                           /\ before.hashlock
                                  \notin DOMAIN intent_escrow'.active_htlcs
                   /\ after.filled_amount <= before.from_amount]_vars

\* a second partial fill has completed a fusion order, after IntentEscrow
\* had an order completed in the same way
C17_Witness ==
    /\ last.op = "execute_partial_fill"
    /\ last.amount > 0
    /\ last.amount < orders[last.order_hash].src_amount
    /\ orders[last.order_hash].status = "Executed"
    /\ orders[last.order_hash].hash_lock \notin DOMAIN active_hash_locks
    /\ \E id \in DOMAIN intent_escrow.orders :
          /\ intent_escrow.orders[id].status = "Executed"
          /\ intent_escrow.orders[id].hashlock \notin DOMAIN intent_escrow.active_htlcs

\* C18: a partial fill of amount 0, or of more than src_amount -
\* filled_amount, is rejected (execute_partial_fill; execute_swap in
\* IntentEscrow).
C18_FillAmountChecked ==
    /\ \A oh \in DOMAIN orders, s \in Secrets, fill_amount \in 0 .. MaxAmount :
          (fill_amount = 0
             \/ fill_amount > orders[oh].src_amount - orders[oh].filled_amount)
          => execute_partial_fill_result(oh, fill_amount, s) # "Ok"
    /\ \A id \in DOMAIN intent_escrow.orders, s \in Secrets,
          amount \in 0 .. MaxAmount :
          (amount = 0
             \/ amount > intent_escrow.orders[id].from_amount
                           - intent_escrow.orders[id].filled_amount)
          => intent_execute_swap_result(id, s, amount) # "Ok"

\* C19: no execute_swap, withdraw or execute_partial_fill is accepted when
\* now > fill_deadline.
C19_NoFillAfterDeadline ==
    [][last'.op \in Executions \cup {"execute_partial_fill"}
        => now <= orders[last'.order_hash].fill_deadline]_vars

\* C20: deploy_escrow and deploy_src with a transferred value below
\* min_safety_deposit, and assign_resolver with one below min_resolver_stake,
\* never succeed, whatever the order: they return InsufficientDeposit
\* (InsufficientStake) unless the contract is paused, which is checked first.
\* So every Locked or PartialFill order carries at least the minimum deposit,
\* and a Pending order has no resolver, the all-zero hash_lock and no entry in
\* the hash-lock index.
C20_DepositBelowMinimum ==
    /\ \A oh \in OrderHashes, hash_lock \in HashLocks, taker \in Resolvers,
          value \in 0 .. min_safety_deposit - 1 :
          /\ deploy_escrow_result(oh, hash_lock, value) # "Ok"
          /\ deploy_src_result(Immutables(oh, hash_lock, taker, NoValue), oh, value)
                 # "Ok"
          /\ ~paused
               => /\ deploy_escrow_result(oh, hash_lock, value)
                        = "InsufficientDeposit"
                  /\ deploy_src_result(Immutables(oh, hash_lock, taker, NoValue),
                                       oh, value) = "InsufficientDeposit"
    /\ \A id \in OrderIds, hashlock \in HashLocks,
          value \in 0 .. min_resolver_stake - 1 :
          /\ assign_resolver_result(id, hashlock, value) # "Ok"
          /\ ~intent_escrow.paused
               => assign_resolver_result(id, hashlock, value) = "InsufficientStake"
    /\ \A oh \in DOMAIN orders :
          /\ orders[oh].status \in Active
               => orders[oh].safety_deposit >= min_safety_deposit
          /\ orders[oh].status = "Pending"
               => /\ orders[oh].resolver = None
                  /\ orders[oh].hash_lock = ZeroHash
                  /\ orders[oh].safety_deposit = 0
                  /\ \A h \in DOMAIN active_hash_locks : active_hash_locks[h] # oh
    /\ \A id \in DOMAIN intent_escrow.orders :
          intent_escrow.orders[id].status = "Pending"
              => /\ intent_escrow.orders[id].assigned_resolver = None
                 /\ intent_escrow.orders[id].hashlock = ZeroHash
                 /\ \A h \in DOMAIN intent_escrow.active_htlcs :
                        intent_escrow.active_htlcs[h] # id

\* both contracts hold a Pending order and are not paused, so that a lock
\* attempt gets as far as the check of the deposit
C20_Witness ==
    /\ ~paused /\ ~intent_escrow.paused
    /\ \E oh \in DOMAIN orders : orders[oh].status = "Pending"
    /\ last.op = "submit_fusion_intent"
    /\ intent_escrow.orders[last.order_hash].status = "Pending"
    /\ \E caller \in Resolvers : 0 \in DepositInputs(caller) /\ 0 \in StakeInputs(caller)

(***************************************************************************)
(* Properties of cancellation.                                             *)
(***************************************************************************)
Cancellations == {"cancel", "cancel_order"}

\* C6: while now <= fill_deadline no caller other than the maker moves an
\* order to Cancelled or Refunded through cancel or cancel_order, and the
\* maker does so for a Pending order only while now <= private_cancellation.
C6_OnlyMakerBeforeDeadline ==
    [][\A oh \in DOMAIN orders :
          (/\ last'.op \in Cancellations
           /\ last'.order_hash = oh
           /\ orders'[oh].status \in {"Cancelled", "Refunded"}
           /\ now <= orders[oh].fill_deadline)
          => /\ last'.caller = orders[oh].maker
             /\ orders[oh].status = "Pending"
                    => now <= orders[oh].private_cancellation]_vars

\* C7: for a Locked or PartialFill order past its fill_deadline, cancel_order
\* by any caller is accepted with reason TimelockExpired, unless the contract
\* is paused or a ledger transfer fails.
C7_AnyoneAfterDeadline ==
    \A oh \in DOMAIN orders, caller \in Accounts, ledger_ok \in BOOLEAN :
        (/\ orders[oh].status \in {"Locked", "PartialFill"}
         /\ now > orders[oh].fill_deadline
         /\ ~paused)
        => /\ cancel_order_result(caller, oh, ledger_ok) \in {"Ok", "TransferFailed"}
           /\ ledger_ok /\ Outstanding(oh) <= balance
                => cancel_order_result(caller, oh, ledger_ok) = "Ok"
           /\ cancel_order_decision(orders[oh], caller, now).reason = "TimelockExpired"

\* a third party has just cancelled a locked order past its deadline
C7_Witness ==
    /\ last.op = "cancel_order"
    /\ last.reason = "TimelockExpired"
    /\ last.caller \notin {orders[last.order_hash].maker,
                           orders[last.order_hash].resolver}
    /\ orders[last.order_hash].status = "Cancelled"
    /\ now > orders[last.order_hash].fill_deadline

\* C8: a cancellation of a Locked or PartialFill order after its deadline
\* leaves the order Refunded.
C8_RefundedAfterDeadline ==
    [][\A oh \in DOMAIN orders :
          (/\ last'.op \in Cancellations
           /\ last'.order_hash = oh
           /\ orders[oh].status \in {"Locked", "PartialFill"}
           /\ now > orders[oh].fill_deadline)
          => orders'[oh].status = "Refunded"]_vars

\* C9: a successful cancel_order pays exactly src_amount - filled_amount to
\* the maker and exactly safety_deposit to the resolver that locked the
\* order, and nothing to anyone else.
C9_CancelOrderPayouts ==
    [][last'.op = "cancel_order"
        => LET o == orders[last'.order_hash]
               to_maker == o.src_amount - o.filled_amount
               to_resolver == IF o.resolver # None THEN o.safety_deposit ELSE 0
           IN  /\ \A a \in Accounts :
                    wallet'[a] - wallet[a] =
                        (IF a = o.maker THEN to_maker ELSE 0)
                        + (IF a = o.resolver THEN to_resolver ELSE 0)
               /\ balance - balance' = to_maker + to_resolver]_vars

\* cancel_order has just refunded a partly filled, locked order
C9_Witness ==
    /\ last.op = "cancel_order"
    /\ orders[last.order_hash].resolver # None
    /\ orders[last.order_hash].safety_deposit > 0
    /\ orders[last.order_hash].filled_amount > 0
    /\ orders[last.order_hash].filled_amount < orders[last.order_hash].src_amount


(***************************************************************************)
(* Properties of the escrow identity.                                      *)
(***************************************************************************)
\* C31: the escrow identity stored under an order_hash is fixed when the
\* order is locked: no later deploy_src or deploy_dst replaces it.
C31_EscrowAddressFixed ==
    [][\A oh \in DOMAIN escrow_addresses :
          /\ oh \in DOMAIN escrow_addresses'
          /\ escrow_addresses'[oh] = escrow_addresses[oh]]_vars


(***************************************************************************)
(* Properties of the resolver's timelock checks.                           *)
(***************************************************************************)
\* C32: when deployed_at + offset overflows the Timestamp, withdraw and
\* cancel of the resolver return ArithmeticOverflow.
C32_OverflowRaised ==
    \A oh \in DOMAIN escrow_resolver.escrow_addresses :
    \A immutables \in ResolverImmutables :
        LET deployed_at == IF immutables.deployed_at = NoValue THEN 0
                           ELSE immutables.deployed_at[1]
        IN  /\ deployed_at + immutables.timelocks.src_withdrawal > TimestampMax
                => \A secret \in Secrets :
                      Hash(secret) = immutables.hash_lock
                        => resolver_withdraw_result(oh, secret, immutables)
                              = "ArithmeticOverflow"
            /\ deployed_at + immutables.timelocks.src_cancellation > TimestampMax
                => resolver_cancel_result(oh, immutables) = "ArithmeticOverflow"


(***************************************************************************)
(* Properties of IntentEscrow's refund.                                    *)
(***************************************************************************)
\* what refund_order answers to a caller, for every order of an unpaused
\* contract: the status is checked first, then the timelock, then the caller
RefundOrderChecks ==
    \A order_id \in DOMAIN intent_escrow.orders, caller \in Accounts :
        LET order == intent_escrow.orders[order_id]
            r == refund_order_result(caller, order_id, TRUE)
        IN  ~intent_escrow.paused =>
              /\ order.status \notin {"Locked", "PartiallyFilled"}
                    => r = "InvalidOrderStatus"
              /\ (order.status \in {"Locked", "PartiallyFilled"}
                  /\ now <= order.timelock) => r = "TimelockNotExpired"
              /\ (order.status \in {"Locked", "PartiallyFilled"}
                  /\ now > order.timelock /\ caller # order.maker)
                    => r = "Unauthorized"
              /\ r = "Ok" <=> (/\ order.status \in {"Locked", "PartiallyFilled"}
                               /\ now > order.timelock
                               /\ caller = order.maker)

\* C33: refund_order succeeds only for the maker of a Locked or
\* PartiallyFilled order past its timelock; it then sets the status Refunded,
\* removes the order's hashlock from active_htlcs and pays from_amount -
\* filled_amount to the maker.  Otherwise it answers InvalidOrderStatus,
\* TimelockNotExpired or Unauthorized, checked in that order.
C33_RefundOrder ==
    [][/\ RefundOrderChecks
       /\ RefundOrderChecks'
       /\ last'.op = "refund_order" =>
            LET id == last'.order_hash
                order == intent_escrow.orders[id]
                refund_amount == order.from_amount - order.filled_amount
            IN  /\ order.status \in {"Locked", "PartiallyFilled"}
                /\ now > order.timelock
                /\ last'.caller = order.maker
                /\ intent_escrow'.orders[id] = [order EXCEPT !.status = "Refunded"]
                /\ order.hashlock \notin DOMAIN intent_escrow'.active_htlcs
                /\ wallet' = [wallet EXCEPT ![order.maker] = @ + refund_amount]
                /\ intent_escrow'.balance = intent_escrow.balance - refund_amount
                /\ \A other \in DOMAIN intent_escrow.orders \ {id} :
                      intent_escrow'.orders[other] = intent_escrow.orders[other]]_vars

\* a partially filled order has been refunded
C33_Witness ==
    /\ last.op = "refund_order"
    /\ intent_escrow.orders[last.order_hash].status = "Refunded"
    /\ intent_escrow.orders[last.order_hash].filled_amount > 0
    /\ intent_escrow.orders[last.order_hash].filled_amount
          < intent_escrow.orders[last.order_hash].from_amount


(***************************************************************************)
(* Properties of the resolver jobs.                                        *)
(***************************************************************************)
\* C34: once a job is Failed its stake is slashed: no later operation
\* transfers its stake_amount to the resolver.
C34_FailedStakeKept ==
    [][\A job_id \in DOMAIN job_resolver.jobs :
          job_resolver.jobs[job_id].status = "Failed"
            => job_resolver'.jobs[job_id].stake_returned
                  = job_resolver.jobs[job_id].stake_returned]_vars

\* the steps of a job's status
JobTransitions ==
    {<<"Pending", "EthereumDeployed">>, <<"EthereumDeployed", "PolkadotDeployed">>,
     <<"PolkadotDeployed", "Executing">>, <<"Executing", "Completed">>,
     <<"Executing", "Failed">>}
        \cup {<<st, "Cancelled">> :
                st \in {"Pending", "EthereumDeployed", "PolkadotDeployed", "Executing"}}

\* C39: a job's status changes only along Pending -> EthereumDeployed ->
\* PolkadotDeployed -> Executing -> {Completed, Failed}, or to Cancelled from
\* a status that is not yet Completed or Failed; Completed, Failed and
\* Cancelled jobs never change status again.
C39_JobTransitions ==
    [][\A job_id \in DOMAIN job_resolver.jobs :
          LET before == job_resolver.jobs[job_id].status
              after == job_resolver'.jobs[job_id].status
          IN  before # after => <<before, after>> \in JobTransitions]_vars

\* C40: the stake of a job is transferred back to the resolver at most once.
C40_StakeReturnedOnce ==
    \A job_id \in DOMAIN job_resolver.jobs :
        job_resolver.jobs[job_id].stake_returned <= 1


(***************************************************************************)
(* Properties of the resolver fee and of repeated payouts.                 *)
(***************************************************************************)
\* the resolver fee execute_swap deducts from an order
DeductedResolverFee(o) ==
    Min(o.resolver_fee, o.src_amount - calculate_protocol_fee(o.src_amount))

\* C36: the resolver fee execute_swap deducts never exceeds the
\* max_resolver_fee of create_order, which a Pending order holds in
\* resolver_fee: a lock with deploy_escrow leaves the order with a fee to
\* deduct that is no larger.
C36_ResolverFeeWithinMax ==
    [][\A oh \in DOMAIN orders :
          (last'.op = "deploy_escrow" /\ last'.order_hash = oh
           /\ calculate_protocol_fee(orders[oh].src_amount) <= orders[oh].src_amount)
            => DeductedResolverFee(orders'[oh]) <= orders[oh].resolver_fee]_vars


\* C35: what the escrow has paid out on an order's account (refunds, payouts
\* to resolver and owner, returns of the safety deposit) never exceeds the
\* src_amount plus the safety_deposit it received for that order.
C35_PayoutsWithinReceipts ==
    \A oh \in DOMAIN orders :
        orders[oh].paid_out <= orders[oh].src_amount + orders[oh].safety_deposit


(***************************************************************************)
(* Properties of the maker's cancellation of an unlocked order.            *)
(***************************************************************************)
\* the maker's cancel_order of a Pending order past its private cancellation
\* period is refused
LatePendingCancelRefused ==
    \A oh \in DOMAIN orders, ledger_ok \in BOOLEAN :
        (orders[oh].status = "Pending" /\ now > orders[oh].private_cancellation)
            => /\ cancel_order_result(orders[oh].maker, oh, ledger_ok) # "Ok"
               /\ ~paused
                    => cancel_order_result(orders[oh].maker, oh, ledger_ok)
                          = "Unauthorized"

\* C37: cancel_order by the maker on a Pending order fails with Unauthorized
\* whenever now > private_cancellation, after the fill deadline as well; no
\* step of cancel_order takes such an order out of Pending or returns its
\* funds.
C37_LatePendingCancel ==
    [][/\ LatePendingCancelRefused
       /\ LatePendingCancelRefused'
       /\ \A oh \in DOMAIN orders :
             (orders[oh].status = "Pending" /\ now > orders[oh].private_cancellation
              /\ last'.op = "cancel_order")
                => /\ orders'[oh] = orders[oh]
                   /\ last'.order_hash # oh]_vars

\* a Pending order past its fill deadline and its private cancellation period,
\* whose maker's cancel_order is answered Unauthorized
C37_Witness ==
    \E oh \in DOMAIN orders :
        /\ orders[oh].status = "Pending"
        /\ now > orders[oh].private_cancellation
        /\ now > orders[oh].fill_deadline
        /\ ~paused
        /\ cancel_order_result(orders[oh].maker, oh, TRUE) = "Unauthorized"


(***************************************************************************)
(* Properties of the relayer coordinator.                                  *)
(***************************************************************************)
\* C38: active_relayer_count is the number of stored relayer records with
\* is_active = true and never exceeds max_relayers; while it is at
\* max_relayers a registration is never accepted, and fails with
\* MaxRelayersReached when it is otherwise acceptable.
C38_ActiveRelayerCount ==
    /\ relayer_coordinator.active_relayer_count =
          Cardinality({a \in DOMAIN relayer_coordinator.relayers :
                          relayer_coordinator.relayers[a].is_active})
    /\ relayer_coordinator.active_relayer_count <= max_relayers
    /\ relayer_coordinator.active_relayer_count >= max_relayers
        => \A stake \in 0 .. InitFunds :
              /\ register_relayer_result(stake) # "Ok"
              /\ (~relayer_coordinator.paused /\ stake >= coordinator_min_stake)
                    => register_relayer_result(stake) = "MaxRelayersReached"

\* the limit is reached again after a relayer was deactivated, next to the
\* record of an inactive relayer
C38_Witness ==
    /\ last.op = "register_relayer"
    /\ relayer_coordinator.active_relayer_count = max_relayers
    /\ \E a \in DOMAIN relayer_coordinator.relayers :
          ~relayer_coordinator.relayers[a].is_active

====
